---- MODULE Spec2Model ----
(***************************************************************************)
(* Task-tracker REST API (app/blueprints/tasks.py) over a document store,  *)
(* with the Task record model (app/models/task.py) and the tag utility     *)
(* (app/models/task_tags.py).                                              *)
(*                                                                         *)
(* Representation.                                                         *)
(*  - A Python str is a sequence of one-character strings (a tag) or, for  *)
(*    title / description / status, a TLA+ string.                         *)
(*  - A JSON body is a record of its keys; a key that is not sent holds    *)
(*    Absent, a key sent as null holds Null.                               *)
(*  - A stored document is a function from field names to values.          *)
(*  - The store's identifiers (ObjectId) are 1, 2, ...; a path identifier  *)
(*    is a string, kept as [wf, n]: wf says whether it is 24 hex digits,   *)
(*    n is the ObjectId it then spells.                                    *)
(*  - Each request runs on a worker of Procs; a handler that makes several *)
(*    store calls takes one step per store call, so requests interleave    *)
(*    between store calls.                                                 *)
(***************************************************************************)
EXTENDS Integers, Sequences, FiniteSets, TLC

VARIABLES
    tasks,   \* the tasks collection: ObjectId -> document
    nextId,  \* the ObjectId the next insert_one assigns
    now,     \* datetime.now(timezone.utc)
    req,     \* per worker: where its request stands, and the handler's locals
    resp,    \* per worker: the operation, identifier and status code of its last response
    sent     \* the response this step sent (NoBody when it sent none)

vars == <<tasks, nextId, now, req, resp, sent>>

(***************************************************************************)
(* Bounds                                                                  *)
(***************************************************************************)
\* ObjectIds the store hands out in one run.
MaxTasks == 1

\* Last instant of the clock.
MaxClock == 2

\* Longest tags list a request body carries.
MaxTagsLen == 2

\* Longest task_ids list of a bulk-delete body.
MaxBulkLen == 2

\* Longest tag made of every combination of the sample characters.
MaxTagLen == 2

\* Request workers.
Procs == {"w1", "w2"}

(***************************************************************************)
(* Python values                                                           *)
(***************************************************************************)
\* dict key that is not present
Absent == "<absent>"

\* None / JSON null
Null == "<null>"

\* Python truthiness of a str-or-None value: None and '' are falsy.
Truthy(v) == v # Null /\ v # ""

\* dict.get(k): None when the key is absent.
Get(v) == IF v = Absent THEN Null ELSE v

\* dict.get(k, default)
GetDefault(v, default) == IF v = Absent THEN default ELSE v

(***************************************************************************)
(* Characters and str methods                                              *)
(***************************************************************************)
UpperChars == <<"A","B","C","D","E","F","G","H","I","J","K","L","M",
                "N","O","P","Q","R","S","T","U","V","W","X","Y","Z">>

LowerChars == <<"a","b","c","d","e","f","g","h","i","j","k","l","m",
                "n","o","p","q","r","s","t","u","v","w","x","y","z">>

DigitChars == {"0","1","2","3","4","5","6","7","8","9"}

\* str.isspace() characters
Whitespace == {" ", "\t", "\n", "\r"}

Range(s) == {s[i] : i \in DOMAIN s}

\* the character class [a-zA-Z0-9_.-] of TAG_PATTERN
TagChars == Range(UpperChars) \cup Range(LowerChars) \cup DigitChars \cup {"_", ".", "-"}

\* str.lower() on one character
LowerChar(c) ==
    IF \E i \in DOMAIN UpperChars : UpperChars[i] = c
    THEN LowerChars[CHOOSE i \in DOMAIN UpperChars : UpperChars[i] = c]
    ELSE c

\* str.lower()
Lower(s) == [i \in DOMAIN s |-> LowerChar(s[i])]

\* str.strip(): drop leading and trailing whitespace
Strip(s) ==
    LET keep == {i \in DOMAIN s : s[i] \notin Whitespace}
    IN  IF keep = {} THEN <<>>
        ELSE LET lo == CHOOSE i \in keep : \A j \in keep : i <= j
                 hi == CHOOSE i \in keep : \A j \in keep : j <= i
             IN  SubSeq(s, lo, hi)

\* x in list
Contains(list, x) == \E i \in DOMAIN list : list[i] = x

\* list.remove(x): drop the first occurrence
RemoveFirst(list, x) ==
    LET at == CHOOSE i \in DOMAIN list : list[i] = x /\ \A j \in 1..(i - 1) : list[j] # x
    IN  SubSeq(list, 1, at - 1) \o SubSeq(list, at + 1, Len(list))

(***************************************************************************)
(* TaskTags (app/models/task_tags.py)                                      *)
(***************************************************************************)
MAX_TAG_LENGTH == 50

\* No ValueError raised.
Ok == "ok"

\* TAG_PATTERN.match(tag) for ^[a-zA-Z0-9_.-]+$ : Python's $ also matches
\* just before one trailing newline.
TAG_PATTERN_match(tag) ==
    LET n    == Len(tag)
        core == IF n > 0 /\ tag[n] = "\n" THEN SubSeq(tag, 1, n - 1) ELSE tag
    IN  Len(core) > 0 /\ \A i \in DOMAIN core : core[i] \in TagChars

\* validate_tag without the check for ' ', '\t' and '\n'.
validate_tag_patternOnly(tag) ==
    IF Len(tag) = 0 THEN "Tag cannot be empty"
    ELSE IF Len(tag) > MAX_TAG_LENGTH THEN "Tag is too long (max 50 characters)"
    ELSE IF ~TAG_PATTERN_match(tag) THEN "Tag contains invalid characters"
    ELSE Ok

\* TaskTags.validate_tag: Ok, or the message of the ValueError it raises.
validate_tag(tag) ==
    IF Len(tag) = 0 THEN "Tag cannot be empty"
    ELSE IF Len(tag) > MAX_TAG_LENGTH THEN "Tag is too long (max 50 characters)"
    ELSE IF \E i \in DOMAIN tag : tag[i] \in {" ", "\t", "\n"}
         THEN "Tag contains invalid characters"
    ELSE IF ~TAG_PATTERN_match(tag) THEN "Tag contains invalid characters"
    ELSE Ok

\* normalize_tag without lower().
normalize_tag_noLower(tag) == IF Len(tag) = 0 THEN tag ELSE Strip(tag)

\* TaskTags.normalize_tag
normalize_tag(tag) == IF Len(tag) = 0 THEN tag ELSE Lower(Strip(tag))

\* task_data.get('tags', [])
TagsOf(task) == IF "tags" \in DOMAIN task THEN task.tags ELSE <<>>

\* dict.copy() followed by result['tags'] = tags
WithTags(task, tags) ==
    [k \in DOMAIN task \cup {"tags"} |-> IF k = "tags" THEN tags ELSE task[k]]

\* add_tag without the call of validate_tag.
add_tag_unvalidated(task_data, tag) ==
    IF Len(tag) = 0 THEN [raised |-> "Tag cannot be empty", task |-> task_data]
    ELSE LET normalized_tag == normalize_tag(tag)
             tags == IF Contains(TagsOf(task_data), normalized_tag)
                     THEN TagsOf(task_data)
                     ELSE Append(TagsOf(task_data), normalized_tag)
         IN  [raised |-> Ok, task |-> WithTags(task_data, tags)]

\* TaskTags.add_tag: [raised |-> Ok or the ValueError message, task |-> the result].
\* A tag of None and a tag of '' take the same branch (not tag); both are <<>> here.
add_tag(task_data, tag) ==
    IF Len(tag) = 0 THEN [raised |-> "Tag cannot be empty", task |-> task_data]
    ELSE IF validate_tag(tag) # Ok THEN [raised |-> validate_tag(tag), task |-> task_data]
    ELSE LET normalized_tag == normalize_tag(tag)
             tags == IF Contains(TagsOf(task_data), normalized_tag)
                     THEN TagsOf(task_data)
                     ELSE Append(TagsOf(task_data), normalized_tag)
         IN  [raised |-> Ok, task |-> WithTags(task_data, tags)]

\* TaskTags.remove_tag
remove_tag(task_data, tag) ==
    IF Len(tag) = 0 THEN [raised |-> "Tag cannot be empty", task |-> task_data]
    ELSE LET normalized_tag == normalize_tag(tag)
             tags == IF Contains(TagsOf(task_data), normalized_tag)
                     THEN RemoveFirst(TagsOf(task_data), normalized_tag)
                     ELSE TagsOf(task_data)
         IN  [raised |-> Ok, task |-> WithTags(task_data, tags)]

(***************************************************************************)
(* Task (app/models/task.py)                                               *)
(***************************************************************************)
StatusEnum == {"pending", "in_progress", "completed"}

\* The keys a request body may carry besides title, description, status, tags.
ExtraKeys == {"_id", "id", "created_at", "archived"}

\* The value a client sends under an extra key.
ExtraValue(k) == IF k = "archived" THEN FALSE ELSE 0

\* A body without keys ({}), which Python treats as false.
EmptyBody ==
    [title |-> Absent, description |-> Absent, status |-> Absent,
     tags |-> [kind |-> "absent", val |-> <<>>], extra |-> {}]

\* not data
IsEmptyBody(data) == data = EmptyBody

\* data.keys()
BodyKeys(data) ==
    {k \in {"title", "description", "status"} : data[k] # Absent}
      \cup (IF data.tags.kind # "absent" THEN {"tags"} ELSE {})
      \cup data.extra

\* data[k] is None
IsNone(data, k) ==
    IF k \in {"title", "description", "status"} THEN data[k] = Null
    ELSE IF k = "tags" THEN data.tags.kind = "null"
    ELSE FALSE

\* data[k], for a key whose value is not None
Value(data, k) ==
    IF k \in {"title", "description", "status"} THEN data[k]
    ELSE IF k = "tags" THEN data.tags.val
    ELSE ExtraValue(k)

\* f'Invalid tag: {str(e)}'
InvalidTagError(msg) ==
    CASE msg = "Tag cannot be empty" -> "Invalid tag: Tag cannot be empty"
      [] msg = "Tag is too long (max 50 characters)"
             -> "Invalid tag: Tag is too long (max 50 characters)"
      [] OTHER -> "Invalid tag: Tag contains invalid characters"

\* The tags part of Task.validate: the loop stops at the first ValueError.
ValidateTags(tags) ==
    IF tags.kind \in {"absent", "null"} THEN <<>>
    ELSE IF tags.kind = "list"
         THEN IF \E i \in DOMAIN tags.val : validate_tag(tags.val[i]) # Ok
              THEN LET first == CHOOSE i \in DOMAIN tags.val :
                                   /\ validate_tag(tags.val[i]) # Ok
                                   /\ \A j \in 1..(i - 1) : validate_tag(tags.val[j]) = Ok
                   IN  <<InvalidTagError(validate_tag(tags.val[first]))>>
              ELSE <<>>
         ELSE <<"Tags must be a list">>

\* validate without the status check.
validate_noStatusCheck(data) ==
    (IF ~Truthy(Get(data.title)) THEN <<"Title is required">> ELSE <<>>)
    \o ValidateTags(data.tags)

\* Task.validate: the list of error messages.
validate(data) ==
    (IF ~Truthy(Get(data.title)) THEN <<"Title is required">> ELSE <<>>)
    \o (IF Truthy(Get(data.status)) /\ data.status \notin StatusEnum
        THEN <<"Status must be one of: pending, in_progress, completed">>
        ELSE <<>>)
    \o ValidateTags(data.tags)

\* Task.create; t1 and t2 are the two reads of the clock.
create(title, description, status, tags, t1, t2) ==
    [title |-> title,
     description |-> IF Truthy(description) THEN description ELSE "",
     status |-> status,
     tags |-> tags,
     created_at |-> t1,
     updated_at |-> t2]

allowed_fields == {"title", "description", "status", "tags"}

\* update_fields without the allow-list.
update_fields_noAllowList(data, t) ==
    LET keys == {k \in BodyKeys(data) : ~IsNone(data, k)}
    IN  [k \in keys \cup {"updated_at"} |->
            IF k = "updated_at" THEN t ELSE Value(data, k)]

\* Task.update_fields; t is the clock read.
update_fields(data, t) ==
    LET keys == {k \in BodyKeys(data) : k \in allowed_fields /\ ~IsNone(data, k)}
    IN  [k \in keys \cup {"updated_at"} |->
            IF k = "updated_at" THEN t ELSE Value(data, k)]

\* str(ObjectId)
str(oid) == [wf |-> TRUE, n |-> oid]

\* datetime.isoformat()
isoformat(t) == [iso |-> t]

\* Task.serialize of a document
serialize(task) ==
    [k \in DOMAIN task |->
        IF k = "_id" THEN str(task[k])
        ELSE IF k \in {"created_at", "updated_at"} THEN isoformat(task[k])
        ELSE task[k]]

(***************************************************************************)
(* Path identifiers and the store (bson.ObjectId, mongo.db.tasks)          *)
(***************************************************************************)
\* A path identifier that is not 24 hex digits.
BadId == [wf |-> FALSE, n |-> 0]

\* bson.ObjectId.is_valid: ObjectId(task_id) raises InvalidId when it is false.
IsValidId(task_id) == task_id.wf

\* ObjectId(task_id), for a valid task_id
ObjectId(task_id) == task_id.n

\* find_one({'_id': oid}) finds a document
Found(oid) == oid \in DOMAIN tasks

\* insert_one(doc): the store assigns the next ObjectId
insert_one(doc) ==
    tasks @@ (nextId :> [k \in DOMAIN doc \cup {"_id"} |->
                            IF k = "_id" THEN nextId ELSE doc[k]])

\* SetFields without $set: the document is replaced by the fields.
SetFields_replace(doc, fields) ==
    [k \in DOMAIN fields \cup {"_id"} |->
        IF k \in DOMAIN fields THEN fields[k] ELSE doc[k]]

\* the document after {'$set': fields}
SetFields(doc, fields) ==
    [k \in DOMAIN doc \cup DOMAIN fields |->
        IF k \in DOMAIN fields THEN fields[k] ELSE doc[k]]

\* update_one({'_id': oid}, {'$set': fields}), for a matched document
update_one(oid, fields) == [tasks EXCEPT ![oid] = SetFields(@, fields)]

\* delete_one({'_id': oid}), for a matched document
delete_one(oid) == [i \in DOMAIN tasks \ {oid} |-> tasks[i]]

(***************************************************************************)
(* Requests and responses                                                  *)
(***************************************************************************)
\* A worker between requests.  In a request: pc is the store call it makes
\* next, id the path identifier, arg the body (or the path's tag), seen the
\* tags of the document find_one returned, tags updated_task['tags'].
Idle == [pc |-> "idle", id |-> BadId, arg |-> <<>>, seen |-> <<>>, tags |-> <<>>]

\* No response yet.
NoResponse == [op |-> "none", id |-> BadId, code |-> 0]

\* No response sent in this step.
NoBody == [by |-> "none", op |-> "none", id |-> BadId, arg |-> <<>>, code |-> 0,
           calls |-> 0, body |-> [kind |-> "none"]]

\* jsonify({'error': msg})
ErrorBody(msg) == [kind |-> "error", error |-> msg]

\* jsonify({'errors': errors})
ErrorsBody(errors) == [kind |-> "errors", errors |-> errors]

\* jsonify({'message': msg})
MessageBody(msg) == [kind |-> "message", message |-> msg]

\* jsonify(Task.serialize(task)); find_one's None serializes to null
TaskBody(oid) ==
    IF Found(oid) THEN [kind |-> "task", task |-> serialize(tasks[oid])]
    ELSE [kind |-> "null"]

\* Worker p answers the request (op, id, arg) with code and body; calls is the
\* number of store calls the request made.
Reply(p, op, id, arg, code, calls, body) ==
    /\ resp' = [resp EXCEPT ![p] = [op |-> op, id |-> id, code |-> code]]
    /\ sent' = [by |-> p, op |-> op, id |-> id, arg |-> arg, code |-> code,
                calls |-> calls, body |-> body]

\* The step sends no response.
NoReply == resp' = resp /\ sent' = NoBody

Init ==
    /\ tasks = <<>>
    /\ nextId = 1
    /\ now = 1
    /\ req = [p \in Procs |-> Idle]
    /\ resp = [p \in Procs |-> NoResponse]
    /\ sent = NoBody

\* The clock advances.
Tick ==
    /\ now < MaxClock
    /\ now' = now + 1
    /\ NoReply
    /\ UNCHANGED <<tasks, nextId, req>>

\* POST /tasks; the clock advances by d between Task.create's two reads of it.
CreateTask(p, data, d) ==
    /\ req[p].pc = "idle"
    /\ IF IsEmptyBody(data)
       THEN /\ Reply(p, "create", BadId, data, 400, 0, ErrorBody("No data provided"))
            /\ UNCHANGED <<tasks, nextId, now, req>>
       ELSE IF validate(data) # <<>>
       THEN /\ Reply(p, "create", BadId, data, 400, 0, ErrorsBody(validate(data)))
            /\ UNCHANGED <<tasks, nextId, now, req>>
       ELSE /\ nextId <= MaxTasks
            /\ now + d <= MaxClock
            /\ now' = now + d
            /\ LET task_doc == create(Get(data.title), Get(data.description),
                                      GetDefault(data.status, "pending"),
                                      data.tags.val, now, now + d)
               IN  /\ tasks' = insert_one(task_doc)
                   /\ Reply(p, "create", str(nextId), data, 201, 1,
                            [kind |-> "task", task |-> serialize(tasks'[nextId])])
            /\ nextId' = nextId + 1
            /\ UNCHANGED req

\* GET /tasks/<task_id>
GetTask(p, task_id) ==
    /\ req[p].pc = "idle"
    /\ IF ~IsValidId(task_id)
       THEN Reply(p, "get", task_id, <<>>, 400, 0, ErrorBody("Invalid task ID"))
       ELSE IF ~Found(ObjectId(task_id))
       THEN Reply(p, "get", task_id, <<>>, 404, 1, ErrorBody("Task not found"))
       ELSE Reply(p, "get", task_id, <<>>, 200, 1, TaskBody(ObjectId(task_id)))
    /\ UNCHANGED <<tasks, nextId, now, req>>

\* PUT /tasks/<task_id>, up to update_one
UpdateTask(p, task_id, data) ==
    /\ req[p].pc = "idle"
    /\ LET errors == validate([EmptyBody EXCEPT !.title = "dummy",
                                                !.status = data.status])
       IN
       IF IsEmptyBody(data)
       THEN /\ Reply(p, "update", task_id, data, 400, 0, ErrorBody("No data provided"))
            /\ UNCHANGED <<tasks, req>>
       ELSE IF data.status # Absent /\ errors # <<>>
       THEN /\ Reply(p, "update", task_id, data, 400, 0, ErrorsBody(errors))
            /\ UNCHANGED <<tasks, req>>
       ELSE IF ~IsValidId(task_id)
       THEN /\ Reply(p, "update", task_id, data, 400, 0, ErrorBody("Invalid task ID"))
            /\ UNCHANGED <<tasks, req>>
       ELSE IF ~Found(ObjectId(task_id))
       THEN /\ Reply(p, "update", task_id, data, 404, 1, ErrorBody("Task not found"))
            /\ UNCHANGED <<tasks, req>>
       ELSE /\ tasks' = update_one(ObjectId(task_id), update_fields(data, now))
            /\ req' = [req EXCEPT ![p] = [Idle EXCEPT !.pc = "update_refetch",
                                                      !.id = task_id, !.arg = data]]
            /\ NoReply
    /\ UNCHANGED <<nextId, now>>

\* PUT /tasks/<task_id>: "Get updated task"
UpdateRefetch(p) ==
    /\ req[p].pc = "update_refetch"
    /\ Reply(p, "update", req[p].id, req[p].arg, 200, 2, TaskBody(ObjectId(req[p].id)))
    /\ req' = [req EXCEPT ![p] = Idle]
    /\ UNCHANGED <<tasks, nextId, now>>

\* DELETE /tasks/<task_id>
DeleteTask(p, task_id) ==
    /\ req[p].pc = "idle"
    /\ IF ~IsValidId(task_id)
       THEN /\ Reply(p, "delete", task_id, <<>>, 400, 0, ErrorBody("Invalid task ID"))
            /\ UNCHANGED tasks
       ELSE IF ~Found(ObjectId(task_id))
       THEN /\ Reply(p, "delete", task_id, <<>>, 404, 1, ErrorBody("Task not found"))
            /\ UNCHANGED tasks
       ELSE /\ tasks' = delete_one(ObjectId(task_id))
            /\ Reply(p, "delete", task_id, <<>>, 200, 1,
                     MessageBody("Task deleted successfully"))
    /\ UNCHANGED <<nextId, now, req>>

\* jsonify({'deleted_count': count, 'message': ...})
BulkBody(count) == [kind |-> "bulk", deleted_count |-> count]

\* POST /tasks/bulk-delete, up to the loop.  The request's locals are kept in
\* arg: task_ids, at (the position the loop has reached) and count; start is
\* the set of stored identifiers when the request arrived, which only the
\* properties read.  Without a JSON body, 'task_ids' not in None raises
\* TypeError, which nothing catches: 500.
BulkDelete(p, data) ==
    /\ req[p].pc = "idle"
    /\ IF data.kind = "nobody"
       THEN /\ Reply(p, "bulk_delete", BadId, data, 500, 0,
                     ErrorBody("Internal Server Error"))
            /\ UNCHANGED req
       ELSE IF data.kind = "absent"
       THEN /\ Reply(p, "bulk_delete", BadId, data, 400, 0,
                     ErrorBody("No task IDs provided"))
            /\ UNCHANGED req
       ELSE IF data.task_ids = <<>>
       THEN /\ Reply(p, "bulk_delete", BadId,
                     [task_ids |-> <<>>, at |-> 1, count |-> 0, start |-> DOMAIN tasks],
                     200, 0, BulkBody(0))
            /\ UNCHANGED req
       ELSE /\ req' = [req EXCEPT ![p] =
                          [Idle EXCEPT !.pc = "bulk",
                                       !.arg = [task_ids |-> data.task_ids, at |-> 1,
                                                count |-> 0, start |-> DOMAIN tasks]]]
            /\ NoReply
    /\ UNCHANGED <<tasks, nextId, now>>

\* BulkDeleteStep counting every identifier of the list.
BulkDeleteStep_countAll(p) ==
    /\ req[p].pc = "bulk"
    /\ LET a       == req[p].arg
           task_id == a.task_ids[a.at]
       IN  IF ~IsValidId(task_id)
           THEN /\ Reply(p, "bulk_delete", BadId, a, 500, a.at - 1,
                         ErrorBody("Internal Server Error"))
                /\ req' = [req EXCEPT ![p] = Idle]
                /\ UNCHANGED tasks
           ELSE /\ tasks' = IF Found(ObjectId(task_id))
                            THEN delete_one(ObjectId(task_id)) ELSE tasks
                /\ IF a.at = Len(a.task_ids)
                   THEN /\ Reply(p, "bulk_delete", BadId, [a EXCEPT !.count = @ + 1],
                                 200, a.at, BulkBody(a.count + 1))
                        /\ req' = [req EXCEPT ![p] = Idle]
                   ELSE /\ req' = [req EXCEPT ![p].arg =
                                      [a EXCEPT !.at = @ + 1, !.count = @ + 1]]
                        /\ NoReply
    /\ UNCHANGED <<nextId, now>>

\* BulkDeleteStep skipping a malformed identifier instead of raising.
BulkDeleteStep_skipMalformed(p) ==
    /\ req[p].pc = "bulk"
    /\ LET a       == req[p].arg
           task_id == a.task_ids[a.at]
           hit     == IsValidId(task_id) /\ Found(ObjectId(task_id))
           count   == a.count + (IF hit THEN 1 ELSE 0)
       IN  /\ tasks' = IF hit THEN delete_one(ObjectId(task_id)) ELSE tasks
           /\ IF a.at = Len(a.task_ids)
              THEN /\ Reply(p, "bulk_delete", BadId, [a EXCEPT !.count = count],
                            200, a.at, BulkBody(count))
                   /\ req' = [req EXCEPT ![p] = Idle]
              ELSE /\ req' = [req EXCEPT ![p].arg = [a EXCEPT !.at = @ + 1, !.count = count]]
                   /\ NoReply
    /\ UNCHANGED <<nextId, now>>

\* POST /tasks/bulk-delete: one turn of the loop, one delete_one.  ObjectId of
\* a malformed identifier raises InvalidId, which nothing catches: 500, and
\* the deletions already made stay.
BulkDeleteStep(p) ==
    /\ req[p].pc = "bulk"
    /\ LET a       == req[p].arg
           task_id == a.task_ids[a.at]
       IN  IF ~IsValidId(task_id)
           THEN /\ Reply(p, "bulk_delete", BadId, a, 500, a.at - 1,
                         ErrorBody("Internal Server Error"))
                /\ req' = [req EXCEPT ![p] = Idle]
                /\ UNCHANGED tasks
           ELSE LET deleted_count == IF Found(ObjectId(task_id)) THEN 1 ELSE 0
                    count         == a.count + deleted_count
                IN  /\ tasks' = IF Found(ObjectId(task_id))
                                THEN delete_one(ObjectId(task_id)) ELSE tasks
                    /\ IF a.at = Len(a.task_ids)
                       THEN /\ Reply(p, "bulk_delete", BadId, [a EXCEPT !.count = count],
                                     200, a.at, BulkBody(count))
                            /\ req' = [req EXCEPT ![p] = Idle]
                       ELSE /\ req' = [req EXCEPT ![p].arg =
                                          [a EXCEPT !.at = @ + 1, !.count = count]]
                            /\ NoReply
    /\ UNCHANGED <<nextId, now>>

\* request.args.get('limit', type=int, default=100) when limit is not given
DefaultLimit == 100

\* find({'status': status}) matches the document; `if status:` adds the
\* condition only for a non-empty status parameter.
Matches(doc, status) == ~Truthy(Get(status)) \/ doc.status = status

\* count_documents(query)
count_documents(status) == Cardinality({i \in DOMAIN tasks : Matches(tasks[i], status)})

\* The orders sort('created_at', -1) can give the identifiers of S: the order
\* of documents with equal created_at is the store's choice.
SortedOrders(S) ==
    {f \in [1..Cardinality(S) -> S] :
        /\ \A i, j \in DOMAIN f : f[i] = f[j] => i = j
        /\ \A i, j \in DOMAIN f : i < j => tasks[f[i]].created_at >= tasks[f[j]].created_at}

\* cursor.skip(skip).limit(limit) on the sorted documents; limit(0) is no limit.
Page(order, skip, limit) ==
    LET last == IF limit = 0 \/ skip + limit > Len(order) THEN Len(order) ELSE skip + limit
    IN  [k \in 1..(IF last > skip THEN last - skip ELSE 0) |-> tasks[order[skip + k]]]

\* TaskTags.filter_tasks_by_tag
filter_tasks_by_tag(task_list, tag) ==
    LET normalized_tag == normalize_tag(tag)
        keeps(task) == Contains(TagsOf(task), normalized_tag)
    IN  SelectSeq(task_list, keeps)

\* jsonify({'tasks': ..., 'total': total, 'limit': limit, 'skip': skip})
ListBody(task_list, total, limit, skip) ==
    [kind |-> "list", tasks |-> [k \in DOMAIN task_list |-> serialize(task_list[k])],
     total |-> total, limit |-> limit, skip |-> skip]

\* GET /tasks up to the tag filter; q holds the query parameters status,
\* limit, skip (after type=int and the defaults) and tag.  With a tag filter
\* the handler answers after find; otherwise count_documents follows.
ListTasks(p, q) ==
    /\ req[p].pc = "idle"
    /\ \E order \in SortedOrders({i \in DOMAIN tasks : Matches(tasks[i], q.status)}) :
         LET all_tasks == Page(order, q.skip, q.limit)
         IN  IF q.tag.kind = "str" /\ Len(q.tag.tag) > 0
             THEN LET filtered == filter_tasks_by_tag(all_tasks, q.tag.tag)
                  IN  /\ Reply(p, "list", BadId, q, 200, 1,
                               ListBody(filtered, Len(filtered), q.limit, q.skip))
                      /\ UNCHANGED req
             ELSE /\ req' = [req EXCEPT ![p] =
                                [Idle EXCEPT !.pc = "list_count", !.arg = q,
                                             !.seen = all_tasks]]
                  /\ NoReply
    /\ UNCHANGED <<tasks, nextId, now>>

\* ListCount with the length of the page as total.
ListCount_pageLength(p) ==
    /\ req[p].pc = "list_count"
    /\ Reply(p, "list", BadId, req[p].arg, 200, 2,
             ListBody(req[p].seen, Len(req[p].seen), req[p].arg.limit, req[p].arg.skip))
    /\ req' = [req EXCEPT ![p] = Idle]
    /\ UNCHANGED <<tasks, nextId, now>>

\* GET /tasks without a tag filter: total = count_documents(query)
ListCount(p) ==
    /\ req[p].pc = "list_count"
    /\ Reply(p, "list", BadId, req[p].arg, 200, 2,
             ListBody(req[p].seen, count_documents(req[p].arg.status),
                      req[p].arg.limit, req[p].arg.skip))
    /\ req' = [req EXCEPT ![p] = Idle]
    /\ UNCHANGED <<tasks, nextId, now>>

\* POST /tasks/<task_id>/archive
ArchiveTask(p, task_id) ==
    /\ req[p].pc = "idle"
    /\ IF ~IsValidId(task_id)
       THEN /\ Reply(p, "archive", task_id, <<>>, 400, 0, ErrorBody("Invalid task ID"))
            /\ UNCHANGED tasks
       ELSE IF ~Found(ObjectId(task_id))
       THEN /\ Reply(p, "archive", task_id, <<>>, 404, 1, ErrorBody("Task not found"))
            /\ UNCHANGED tasks
       ELSE /\ tasks' = update_one(ObjectId(task_id), [archived |-> TRUE])
            /\ Reply(p, "archive", task_id, <<>>, 200, 1,
                     MessageBody("Task archived successfully"))
    /\ UNCHANGED <<nextId, now, req>>

\* POST /tasks/<task_id>/tags, up to TaskTags.add_tag
AddTagFind(p, task_id, data) ==
    /\ req[p].pc = "idle"
    /\ IF data.kind = "absent"
       THEN /\ Reply(p, "add_tag", task_id, data, 400, 0,
                     ErrorBody("Tag parameter is required"))
            /\ UNCHANGED req
       ELSE IF data.kind = "array"
       THEN /\ Reply(p, "add_tag", task_id, data, 500, 0,
                     ErrorBody("Internal server error"))
            /\ UNCHANGED req
       ELSE IF ~IsValidId(task_id)
       THEN /\ Reply(p, "add_tag", task_id, data, 400, 0, ErrorBody("Invalid task ID"))
            /\ UNCHANGED req
       ELSE IF ~Found(ObjectId(task_id))
       THEN /\ Reply(p, "add_tag", task_id, data, 404, 1, ErrorBody("Task not found"))
            /\ UNCHANGED req
       ELSE LET task == tasks[ObjectId(task_id)]
                updated_task == add_tag(task, data.tag)
            IN  IF updated_task.raised # Ok
                THEN /\ Reply(p, "add_tag", task_id, data, 400, 1,
                              ErrorBody(updated_task.raised))
                     /\ UNCHANGED req
                ELSE /\ req' = [req EXCEPT ![p] =
                                   [pc |-> "add_update", id |-> task_id, arg |-> data,
                                    seen |-> TagsOf(task), tags |-> updated_task.task.tags]]
                     /\ NoReply
    /\ UNCHANGED <<tasks, nextId, now>>

\* DELETE /tasks/<task_id>/tags/<tag>, up to TaskTags.remove_tag
RemoveTagFind(p, task_id, tag) ==
    /\ req[p].pc = "idle"
    /\ IF ~IsValidId(task_id)
       THEN /\ Reply(p, "remove_tag", task_id, tag, 400, 0, ErrorBody("Invalid task ID"))
            /\ UNCHANGED req
       ELSE IF ~Found(ObjectId(task_id))
       THEN /\ Reply(p, "remove_tag", task_id, tag, 404, 1, ErrorBody("Task not found"))
            /\ UNCHANGED req
       ELSE LET task == tasks[ObjectId(task_id)]
                updated_task == remove_tag(task, tag)
            IN  IF updated_task.raised # Ok
                THEN /\ Reply(p, "remove_tag", task_id, tag, 500, 1,
                              ErrorBody("Internal server error"))
                     /\ UNCHANGED req
                ELSE /\ req' = [req EXCEPT ![p] =
                                   [pc |-> "remove_update", id |-> task_id, arg |-> tag,
                                    seen |-> TagsOf(task), tags |-> updated_task.task.tags]]
                     /\ NoReply
    /\ UNCHANGED <<tasks, nextId, now>>

\* TagUpdate as an atomic modify: the tag is applied to the stored document.
TagUpdate_atomic(p, op) ==
    /\ req[p].pc = IF op = "add_tag" THEN "add_update" ELSE "remove_update"
    /\ IF ~Found(ObjectId(req[p].id))
       THEN /\ Reply(p, op, req[p].id, req[p].arg, 404, 2, ErrorBody("Task not found"))
            /\ req' = [req EXCEPT ![p] = Idle]
            /\ UNCHANGED tasks
       ELSE /\ tasks' = update_one(ObjectId(req[p].id),
                           [tags |-> IF op = "add_tag"
                                     THEN add_tag(tasks[ObjectId(req[p].id)],
                                                  req[p].arg.tag).task.tags
                                     ELSE remove_tag(tasks[ObjectId(req[p].id)],
                                                     req[p].arg).task.tags])
            /\ req' = [req EXCEPT ![p].pc =
                          IF op = "add_tag" THEN "add_refetch" ELSE "remove_refetch"]
            /\ NoReply
    /\ UNCHANGED <<nextId, now>>

\* TagUpdate with upsert=True: an unmatched identifier gets a new document.
TagUpdate_upsert(p, op) ==
    /\ req[p].pc = IF op = "add_tag" THEN "add_update" ELSE "remove_update"
    /\ tasks' = IF Found(ObjectId(req[p].id))
                THEN update_one(ObjectId(req[p].id), [tags |-> req[p].tags])
                ELSE tasks @@ (ObjectId(req[p].id) :>
                                  [_id |-> ObjectId(req[p].id), tags |-> req[p].tags])
    /\ req' = [req EXCEPT ![p].pc =
                  IF op = "add_tag" THEN "add_refetch" ELSE "remove_refetch"]
    /\ NoReply
    /\ UNCHANGED <<nextId, now>>

\* TagUpdate with replace_one: the stored document becomes {'tags': ...}.
TagUpdate_replace(p, op) ==
    /\ req[p].pc = IF op = "add_tag" THEN "add_update" ELSE "remove_update"
    /\ IF ~Found(ObjectId(req[p].id))
       THEN /\ Reply(p, op, req[p].id, req[p].arg, 404, 2, ErrorBody("Task not found"))
            /\ req' = [req EXCEPT ![p] = Idle]
            /\ UNCHANGED tasks
       ELSE /\ tasks' = [tasks EXCEPT ![ObjectId(req[p].id)] =
                            [_id |-> ObjectId(req[p].id), tags |-> req[p].tags]]
            /\ req' = [req EXCEPT ![p].pc =
                          IF op = "add_tag" THEN "add_refetch" ELSE "remove_refetch"]
            /\ NoReply
    /\ UNCHANGED <<nextId, now>>

\* add-tag and remove-tag: update_one({'_id': ...}, {'$set': {'tags': updated_task['tags']}})
TagUpdate(p, op) ==
    /\ req[p].pc = IF op = "add_tag" THEN "add_update" ELSE "remove_update"
    /\ IF ~Found(ObjectId(req[p].id))
       THEN /\ Reply(p, op, req[p].id, req[p].arg, 404, 2, ErrorBody("Task not found"))
            /\ req' = [req EXCEPT ![p] = Idle]
            /\ UNCHANGED tasks
       ELSE /\ tasks' = update_one(ObjectId(req[p].id), [tags |-> req[p].tags])
            /\ req' = [req EXCEPT ![p].pc =
                          IF op = "add_tag" THEN "add_refetch" ELSE "remove_refetch"]
            /\ NoReply
    /\ UNCHANGED <<nextId, now>>

\* add-tag and remove-tag: "Get updated task"
TagRefetch(p, op) ==
    /\ req[p].pc = IF op = "add_tag" THEN "add_refetch" ELSE "remove_refetch"
    /\ Reply(p, op, req[p].id, req[p].arg, 200, 3, TaskBody(ObjectId(req[p].id)))
    /\ req' = [req EXCEPT ![p] = Idle]
    /\ UNCHANGED <<tasks, nextId, now>>

\* Characters in the order of their code points.
CharOrder ==
    <<"\t", "\n", "\r", " ", "!", "+", "-", ".">>
      \o <<"0", "1", "2", "3", "4", "5", "6", "7", "8", "9">>
      \o <<"@">> \o UpperChars \o <<"_">> \o LowerChars

\* ord(c)
Ord(c) == CHOOSE i \in DOMAIN CharOrder : CharOrder[i] = c

\* a < b for two str values
StrLess(a, b) ==
    \/ Len(a) < Len(b) /\ SubSeq(b, 1, Len(a)) = a
    \/ \E i \in DOMAIN a \cap DOMAIN b :
         /\ Ord(a[i]) < Ord(b[i])
         /\ \A j \in 1..(i - 1) : a[j] = b[j]

\* list(mongo.db.tasks.find({})): the documents in the order they were inserted
StoredTasks ==
    LET n     == Cardinality(DOMAIN tasks)
        order == CHOOSE f \in [1..n -> DOMAIN tasks] : \A i, j \in 1..n : i < j => f[i] < f[j]
    IN  [k \in 1..n |-> tasks[order[k]]]

\* TaskTags.get_all_unique_tags: sorted(list(all_tags))
get_all_unique_tags(task_list) ==
    LET all_tags == UNION {Range(TagsOf(task_list[k])) : k \in DOMAIN task_list}
        n        == Cardinality(all_tags)
    IN  CHOOSE f \in [1..n -> all_tags] : \A i, j \in 1..n : i < j => StrLess(f[i], f[j])

RECURSIVE AllTags(_)
\* all_tags after the loop of all_tags.extend(task.get('tags', []))
AllTags(task_list) ==
    IF task_list = <<>> THEN <<>>
    ELSE TagsOf(Head(task_list)) \o AllTags(Tail(task_list))

\* TaskTags.get_tag_counts: dict(Counter(all_tags))
get_tag_counts(task_list) ==
    LET all_tags == AllTags(task_list)
    IN  [t \in Range(all_tags) |-> Cardinality({k \in DOMAIN all_tags : all_tags[k] = t})]

\* GET /tasks/tags
GetAllTags(p) ==
    /\ req[p].pc = "idle"
    /\ Reply(p, "all_tags", BadId, <<>>, 200, 1,
             [kind |-> "tags", tags |-> get_all_unique_tags(StoredTasks)])
    /\ UNCHANGED <<tasks, nextId, now, req>>

\* GET /tasks/tags/stats
GetTagStatistics(p) ==
    /\ req[p].pc = "idle"
    /\ Reply(p, "tag_stats", BadId, <<>>, 200, 1,
             [kind |-> "tag_counts", tag_counts |-> get_tag_counts(StoredTasks)])
    /\ UNCHANGED <<tasks, nextId, now, req>>

\* The handler of op wraps its store calls in try/except Exception.
HasExceptException(op) == op \in {"add_tag", "remove_tag", "all_tags", "tag_stats"}

\* What the client gets when nothing catches the exception: the framework's
\* 500, not a body of the handler.
Unhandled == [kind |-> "unhandled"]

\* The operation of the request that is at pc.
OpAt(pc) ==
    CASE pc = "update_refetch" -> "update"
      [] pc = "bulk" -> "bulk_delete"
      [] pc = "list_count" -> "list"
      [] pc \in {"add_update", "add_refetch"} -> "add_tag"
      [] pc \in {"remove_update", "remove_refetch"} -> "remove_tag"

\* The store call a request makes next raises an exception that is neither
\* InvalidId nor ValueError (the store is unreachable, say), and the call has
\* no effect.  From idle the request r = [op, id, arg] arrives, passes the
\* handler's checks of its body and fails at its first store call; otherwise
\* the request in flight fails at the call it has reached.
StoreRaises(p, r) ==
    LET op   == IF req[p].pc = "idle" THEN r.op ELSE OpAt(req[p].pc)
        id   == IF req[p].pc = "idle" THEN r.id ELSE req[p].id
        arg  == IF req[p].pc = "idle" THEN r.arg ELSE req[p].arg
        body == IF HasExceptException(op) THEN ErrorBody("Internal server error")
                ELSE Unhandled
    IN  /\ Reply(p, op, id, arg, 500, 0, body)
        /\ req' = [req EXCEPT ![p] = Idle]
        /\ UNCHANGED <<tasks, nextId, now>>

(***************************************************************************)
(* Requests the clients send                                               *)
(***************************************************************************)
Urgent == <<"U", "r", "g", "e", "n", "t">>

urgent == <<"u", "r", "g", "e", "n", "t">>

bug == <<"b", "u", "g">>

\* a tag with a space, which validate_tag rejects
two_words == <<"t", "o", " ", "d", "o">>

\* a tag of MAX_TAG_LENGTH + 1 characters
too_long == [i \in 1..(MAX_TAG_LENGTH + 1) |-> "x"]

\* Path identifiers: a malformed one, and the spelling of each ObjectId.
PathIds == {BadId} \cup {str(i) : i \in 1..MaxTasks}

\* Sequences over S of length at most n.
SeqUpTo(S, n) == UNION {[1..k -> S] : k \in 0..n}

Body(title, description, status, tags, extra) ==
    [title |-> title, description |-> description, status |-> status,
     tags |-> tags, extra |-> extra]

NoTags == [kind |-> "absent", val |-> <<>>]

NullTags == [kind |-> "null", val |-> <<>>]

\* tags sent as a string
NotAList == [kind |-> "notlist", val |-> <<>>]

ListOf(l) == [kind |-> "list", val |-> l]

\* One well-formed body.
PlainBody == Body("Write report", Absent, Absent, NoTags, {})

\* Bodies that vary title, description and status.
FieldBodies ==
    {Body(t, Absent, s, NoTags, {}) :
        t \in {Absent, Null, "", "Write report"},
        s \in {Absent, Null, "", "pending", "in_progress", "completed", "done"}}
      \cup {Body(Absent, d, Absent, NoTags, {}) : d \in {Absent, Null, "notes"}}

\* Bodies that vary tags.
TagBodies ==
    {Body(t, Absent, Absent, tg, {}) :
        t \in {Absent, "Write report"},
        tg \in {NullTags, NotAList}
                 \cup {ListOf(l) : l \in SeqUpTo({Urgent, urgent, two_words}, MaxTagsLen)}}

\* Bodies that carry keys outside the allow-list.
ExtraBodies ==
    {Body(t, Absent, Absent, NoTags, e) :
        t \in {Absent, "Write report"}, e \in SUBSET ExtraKeys}

\* Update bodies: a tags value that is not a list is left out (the stored
\* tags field is a list throughout).
NoNotAList(B) == {data \in B : data.tags.kind # "notlist"}

\* Bodies of POST /tasks/<task_id>/tags: no "tag" key, {"tag": null}, the JSON
\* array ["tag"] ('tag' in data holds, data['tag'] raises TypeError), {"tag": t}
AddTagBodies ==
    {[kind |-> "absent", tag |-> <<>>], [kind |-> "null", tag |-> <<>>],
     [kind |-> "array", tag |-> <<>>]}
      \cup {[kind |-> "str", tag |-> t] : t \in {<<>>, Urgent, urgent, bug, two_words, too_long}}

\* The <tag> of DELETE /tasks/<task_id>/tags/<tag>
RemoveTagInputs == {Urgent, urgent, bug, two_words}

\* Bodies of POST /tasks/bulk-delete
IdsBody(task_ids) == [kind |-> "ids", task_ids |-> task_ids]

\* Well-formed identifiers a bulk-delete body names: those the store hands
\* out and one it never does.
BulkIds == {str(i) : i \in 1..(MaxTasks + 1)}

\* Bodies of POST /tasks/bulk-delete whose task_ids are all well-formed
BulkBodies == {IdsBody(l) : l \in SeqUpTo(BulkIds, MaxBulkLen)}

(***************************************************************************)
(* Specifications                                                          *)
(***************************************************************************)
\* POST /tasks by a worker of W, with a body of CB; the clock advances by
\* some d of Adv inside Task.create.
Creates(W, Adv, CB) == \E p \in W, data \in CB, d \in Adv : CreateTask(p, data, d)

\* GET /tasks/<task_id>
Reads(W, IDS) == \E p \in W, task_id \in IDS : GetTask(p, task_id)

\* PUT /tasks/<task_id> with a body of UB
Updates(W, IDS, UB) ==
    \E p \in W :
        \/ \E task_id \in IDS, data \in UB : UpdateTask(p, task_id, data)
        \/ UpdateRefetch(p)

\* DELETE /tasks/<task_id>
Deletes(W, IDS) == \E p \in W, task_id \in IDS : DeleteTask(p, task_id)

\* POST /tasks/<task_id>/archive
Archives(W, IDS) == \E p \in W, task_id \in IDS : ArchiveTask(p, task_id)

\* POST /tasks/<task_id>/tags with a body of AB
AddTags(W, IDS, AB) ==
    \E p \in W :
        \/ \E task_id \in IDS, data \in AB : AddTagFind(p, task_id, data)
        \/ TagUpdate(p, "add_tag")
        \/ TagRefetch(p, "add_tag")

\* DELETE /tasks/<task_id>/tags/<tag> with a tag of RT
RemoveTags(W, IDS, RT) ==
    \E p \in W :
        \/ \E task_id \in IDS, tag \in RT : RemoveTagFind(p, task_id, tag)
        \/ TagUpdate(p, "remove_tag")
        \/ TagRefetch(p, "remove_tag")

\* POST /tasks/bulk-delete with a body of BD
BulkDeletes(W, BD) ==
    \/ \E p \in W : \E data \in BD : BulkDelete(p, data)
    \/ \E p \in W : BulkDeleteStep(p)

\* GET /tasks with the query parameters of a q in Q
Lists(W, Q) ==
    \/ \E p \in W : \E q \in Q : ListTasks(p, q)
    \/ \E p \in W : ListCount(p)

\* Every single-task operation.
NextOn(W, IDS, Adv, CB, UB, AB, RT) ==
    \/ Creates(W, Adv, CB)
    \/ Reads(W, IDS)
    \/ Updates(W, IDS, UB)
    \/ Deletes(W, IDS)
    \/ Archives(W, IDS)
    \/ AddTags(W, IDS, AB)
    \/ RemoveTags(W, IDS, RT)

StrTag(t) == [kind |-> "str", tag |-> t]

\* Concurrent requests of both workers, all aimed at the first task.
Next ==
    NextOn(Procs, {str(1)}, {0}, {PlainBody},
           {Body(Absent, Absent, "completed", NoTags, {"archived"})},
           {StrTag(Urgent), StrTag(bug)}, {urgent})

Spec == Init /\ [][Next]_vars

\* One worker, every operation on well-formed and malformed identifiers.
NextIds ==
    NextOn({"w1"}, PathIds, {0}, {PlainBody},
           {EmptyBody, PlainBody, Body(Absent, Absent, "done", NoTags, {}),
            Body(Absent, Absent, Absent, NoTags, {"_id"})},
           AddTagBodies, {urgent, two_words})

SpecIds == Init /\ [][NextIds]_vars

\* One worker; create with every kind of body.
NextCreate ==
    \/ Creates({"w1"}, {0}, FieldBodies \cup TagBodies \cup ExtraBodies \cup {EmptyBody})
    \/ Reads({"w1"}, PathIds)
    \/ Deletes({"w1"}, PathIds)

SpecCreate == Init /\ [][NextCreate]_vars

\* One worker; create and update with bodies that vary title, description and status.
NextFields ==
    \/ Creates({"w1"}, {0}, FieldBodies)
    \/ Updates({"w1"}, PathIds, FieldBodies)
    \/ Reads({"w1"}, PathIds)
    \/ Deletes({"w1"}, PathIds)

SpecFields == Init /\ [][NextFields]_vars

\* One worker; create, update, add-tag and remove-tag with bodies that vary tags.
NextTags ==
    \/ Creates({"w1"}, {0}, TagBodies)
    \/ Updates({"w1"}, PathIds, NoNotAList(TagBodies))
    \/ AddTags({"w1"}, PathIds, AddTagBodies)
    \/ RemoveTags({"w1"}, PathIds, RemoveTagInputs)
    \/ Reads({"w1"}, PathIds)

SpecTags == Init /\ [][NextTags]_vars

\* One worker and a running clock; update bodies with keys outside the allow-list.
NextClock ==
    \/ Tick
    \/ NextOn({"w1"}, PathIds, {0, 1}, {PlainBody}, ExtraBodies \cup {EmptyBody},
              {StrTag(Urgent), StrTag(two_words)}, {urgent})

SpecClock == Init /\ [][NextClock]_vars

\* Two add-tag requests with different tags race on the first task.
NextRace ==
    \/ Creates({"w1"}, {0}, {PlainBody})
    \/ Reads(Procs, {str(1)})
    \/ AddTags({"w1"}, {str(1)}, {StrTag(Urgent)})
    \/ AddTags({"w2"}, {str(1)}, {StrTag(bug)})

SpecRace == Init /\ [][NextRace]_vars

\* One worker updates, archives, tags and reads the first task while the
\* other creates and deletes it.
NextDelete ==
    \/ Creates({"w2"}, {0}, {PlainBody})
    \/ Deletes({"w2"}, {str(1)})
    \/ BulkDeletes({"w2"}, {IdsBody(<<str(1)>>)})
    \/ Reads({"w1"}, {str(1)})
    \/ Updates({"w1"}, {str(1)},
               {PlainBody, EmptyBody, Body(Absent, Absent, "done", NoTags, {})})
    \/ Archives({"w1"}, {str(1)})
    \/ AddTags({"w1"}, {str(1)}, {StrTag(Urgent), [kind |-> "absent", tag |-> <<>>]})
    \/ RemoveTags({"w1"}, {str(1)}, {urgent})

SpecDelete == Init /\ [][NextDelete]_vars

\* One worker creates, deletes and bulk-deletes; no request interleaves with
\* the bulk delete.
NextBulk ==
    \/ Creates({"w1"}, {0}, {PlainBody})
    \/ Reads({"w1"}, PathIds)
    \/ Deletes({"w1"}, PathIds)
    \/ BulkDeletes({"w1"}, BulkBodies \cup {[kind |-> "absent"]})

SpecBulk == Init /\ [][NextBulk]_vars

\* Bodies of POST /tasks/bulk-delete that name a malformed identifier too
MixedBulkBodies == {IdsBody(l) : l \in SeqUpTo(BulkIds \cup {BadId}, MaxBulkLen)}

\* One worker creates, reads and bulk-deletes with well-formed and malformed
\* identifiers; no request interleaves with the bulk delete.
NextBulkMixed ==
    \/ Creates({"w1"}, {0}, {PlainBody})
    \/ Reads({"w1"}, PathIds)
    \/ BulkDeletes({"w1"}, MixedBulkBodies)

SpecBulkMixed == Init /\ [][NextBulkMixed]_vars

\* Query parameters of GET /tasks: status absent or given, limit absent (the
\* default) or 1, skip absent (0) or 1, tag absent, empty or given.
ListQueries ==
    {[status |-> s, limit |-> l, skip |-> k, tag |-> t] :
        s \in {Absent, "completed"}, l \in {DefaultLimit, 1}, k \in {0, 1},
        t \in {[kind |-> "absent", tag |-> <<>>], StrTag(<<>>), StrTag(Urgent)}}

\* One worker lists while the other creates tasks, with and without the tag
\* and the status the queries ask for, and deletes them.
NextList ==
    \/ Creates({"w2"}, {0},
               {PlainBody, Body("Write report", Absent, "completed", ListOf(<<urgent>>), {})})
    \/ Deletes({"w2"}, PathIds)
    \/ Lists({"w1"}, ListQueries)

SpecList == Init /\ [][NextList]_vars

\* One worker sends the requests of the end-to-end sequence, in any order and
\* to any path identifier, while the clock runs; no other request is interleaved.
NextSeq ==
    \/ Tick
    \/ Creates({"w1"}, {0, 1}, {PlainBody})
    \/ Reads({"w1"}, PathIds)
    \/ AddTags({"w1"}, PathIds, {StrTag(Urgent)})
    \/ RemoveTags({"w1"}, PathIds, {urgent})
    \/ Deletes({"w1"}, PathIds)

SpecSeq == Init /\ [][NextSeq]_vars

\* An update body that changes title, description and status.
FinalBody == Body("Final report", "notes", "completed", NoTags, {})

\* One worker adds and removes a tag while the other creates, updates and
\* archives the same task and the clock runs.
NextFrame ==
    \/ Tick
    \/ Creates({"w2"}, {0}, {PlainBody})
    \/ Updates({"w2"}, {str(1)}, {FinalBody})
    \/ Archives({"w2"}, {str(1)})
    \/ Reads({"w2"}, {str(1)})
    \/ AddTags({"w1"}, {str(1)}, {StrTag(Urgent)})
    \/ RemoveTags({"w1"}, {str(1)}, {urgent})

SpecFrame == Init /\ [][NextFrame]_vars

\* Requests that reach their first store call: one of each operation.
FaultRequests ==
    {[op |-> "create", id |-> BadId, arg |-> PlainBody],
     [op |-> "list", id |-> BadId,
      arg |-> [status |-> Absent, limit |-> DefaultLimit, skip |-> 0,
               tag |-> [kind |-> "absent", tag |-> <<>>]]],
     [op |-> "get", id |-> str(1), arg |-> <<>>],
     [op |-> "update", id |-> str(1), arg |-> PlainBody],
     [op |-> "delete", id |-> str(1), arg |-> <<>>],
     [op |-> "bulk_delete", id |-> BadId, arg |-> IdsBody(<<str(1)>>)],
     [op |-> "archive", id |-> str(1), arg |-> <<>>],
     [op |-> "add_tag", id |-> str(1), arg |-> StrTag(Urgent)],
     [op |-> "remove_tag", id |-> str(1), arg |-> urgent],
     [op |-> "all_tags", id |-> BadId, arg |-> <<>>],
     [op |-> "tag_stats", id |-> BadId, arg |-> <<>>]}

\* Every operation by one worker on the first task, with store calls that
\* may raise.
NextFaults ==
    \/ NextOn({"w1"}, {str(1)}, {0},
              {Body("Write report", Absent, Absent, ListOf(<<bug>>), {})},
              {PlainBody}, {StrTag(Urgent)}, {urgent})
    \/ BulkDeletes({"w1"}, {IdsBody(<<str(1), str(1)>>)})
    \/ Lists({"w1"}, {[status |-> Absent, limit |-> DefaultLimit, skip |-> 0,
                       tag |-> [kind |-> "absent", tag |-> <<>>]]})
    \/ GetAllTags("w1")
    \/ GetTagStatistics("w1")
    \/ \E r \in FaultRequests : StoreRaises("w1", r)

SpecFaults == Init /\ [][NextFaults]_vars

(***************************************************************************)
(* Direct calls of the TaskTags functions                                  *)
(***************************************************************************)
\* A call is about to be made with the arguments x: no store, no request.
CallInit(Inputs) ==
    /\ tasks = <<>>
    /\ nextId = 1
    /\ now = 1
    /\ req = [p \in Procs |-> Idle]
    /\ resp = [p \in Procs |-> NoResponse]
    /\ \E x \in Inputs : sent = [NoBody EXCEPT !.op = "call", !.arg = x]

\* The function fn returns result for the arguments.
Returns(fn, result) ==
    /\ sent.op = "call"
    /\ sent' = [sent EXCEPT !.op = fn, !.body = result]
    /\ UNCHANGED <<tasks, nextId, now, req, resp>>

\* TaskTags.validate_tag(tag)
CallValidateTag ==
    Returns("validate_tag", [kind |-> "result", raised |-> validate_tag(sent.arg)])

\* TaskTags.normalize_tag(tag)
CallNormalizeTag ==
    Returns("normalize_tag", [kind |-> "result", value |-> normalize_tag(sent.arg)])

\* Characters tags are made of here: letters of both cases, a digit, the
\* three punctuation marks of the pattern, the three kinds of whitespace
\* validate_tag names, and two characters outside the pattern.
SampleChars == {"a", "Z", "7", "_", "-", ".", " ", "\t", "\n", "!", "@"}

\* n times the character c
Repeat(c, n) == [i \in 1..n |-> c]

\* Tags: every string of sample characters up to MaxTagLen, and strings at
\* the length limit: MAX_TAG_LENGTH and one more, with and without a
\* trailing newline.
TagInputs ==
    SeqUpTo(SampleChars, MaxTagLen)
      \cup {Repeat("x", MAX_TAG_LENGTH), Repeat("x", MAX_TAG_LENGTH + 1),
            Append(Repeat("x", MAX_TAG_LENGTH - 1), "\n"),
            Append(Repeat("x", MAX_TAG_LENGTH), "\n")}

NextTagRule == CallValidateTag \/ CallNormalizeTag

SpecTagRule == CallInit(TagInputs) /\ [][NextTagRule]_vars

\* Task records: with every tags list up to MaxTagsLen over three tags
\* (repeats included, as create and update store them), and without a tags
\* field.
TaskRecords ==
    {[title |-> "Write report", tags |-> l] : l \in SeqUpTo({Urgent, urgent, bug}, MaxTagsLen)}
      \cup {[title |-> "Write report"]}

\* " urgent ": normalize_tag strips it to "urgent"
padded_urgent == <<" ">> \o urgent \o <<" ">>

\* TaskTags.add_tag(TaskTags.add_tag(task, tag), again)
CallAddTagTwice ==
    LET first  == add_tag(sent.arg.task, sent.arg.tag)
        second == add_tag(first.task, sent.arg.again)
    IN  Returns("add_tag_twice", [kind |-> "result", first |-> first, second |-> second])

\* TaskTags.remove_tag(task, tag)
CallRemoveTag ==
    Returns("remove_tag_call",
            [kind |-> "result", removed |-> remove_tag(sent.arg.task, sent.arg.tag)])

AddTagInputs ==
    {[task |-> task, tag |-> t, again |-> u] :
        task \in TaskRecords, t \in {Urgent, urgent, bug}, u \in {Urgent, urgent, bug}}

RemoveTagCallInputs ==
    {[task |-> task, tag |-> t] :
        task \in TaskRecords, t \in {Urgent, urgent, bug, two_words, padded_urgent}}

NextAddTag == CallAddTagTwice

SpecAddTag == CallInit(AddTagInputs) /\ [][NextAddTag]_vars

NextRemoveTag == CallRemoveTag

SpecRemoveTag == CallInit(RemoveTagCallInputs) /\ [][NextRemoveTag]_vars

(***************************************************************************)
(* TaskTags.add_tag and TaskTags.remove_tag on Python objects              *)
(***************************************************************************)
\* A heap maps the name of an object to its value: a dict is a record whose
\* 'tags' item holds the name of a list, a list is a sequence.  The caller's
\* dict is "task_data" and its tags list "tags0"; the calls create "result"
\* (task_data.copy()), "fresh" (the literal []) and "tags" (the list copy).

\* The caller's objects for the task record rec.
HeapOf(rec) ==
    IF "tags" \in DOMAIN rec
    THEN ("task_data" :> [title |-> rec.title, tags |-> "tags0"]) @@ ("tags0" :> rec.tags)
    ELSE ("task_data" :> [title |-> rec.title])

\* The value of the dict named d: its tags item replaced by the list it names.
Deref(h, d) ==
    [k \in DOMAIN h[d] |-> IF k = "tags" THEN h[h[d].tags] ELSE h[d][k]]

\* dict.copy(): a new dict with the same items (the same list, not a copy)
dict_copy(h, d, new) == [heap |-> h @@ (new :> h[d]), ref |-> new]

\* list_copy without the copy: the same list under a second name.
list_copy_alias(h, l, new) == [heap |-> h, ref |-> l]

\* list.copy(): a new list with the same elements
list_copy(h, l, new) == [heap |-> h @@ (new :> h[l]), ref |-> new]

\* d[k] = v
setitem(h, d, k, v) ==
    [h EXCEPT ![d] = [kk \in DOMAIN h[d] \cup {k} |-> IF kk = k THEN v ELSE h[d][kk]]]

\* d['tags'] = [] with the new list named new
set_empty_tags(h, d, new) == setitem(h @@ (new :> <<>>), d, "tags", new)

\* list.append(x)
list_append(h, l, x) == [h EXCEPT ![l] = Append(@, x)]

\* list.remove(x)
list_remove(h, l, x) == [h EXCEPT ![l] = RemoveFirst(@, x)]

\* TaskTags.add_tag, statement by statement: the heap after the call, the
\* ValueError raised (or Ok) and the name of the dict returned.
add_tag_on(h, tag) ==
    IF Len(tag) = 0 THEN [raised |-> "Tag cannot be empty", heap |-> h, ref |-> "none"]
    ELSE IF validate_tag(tag) # Ok
    THEN [raised |-> validate_tag(tag), heap |-> h, ref |-> "none"]
    ELSE LET normalized_tag == normalize_tag(tag)
             result == dict_copy(h, "task_data", "result")
             h2     == IF "tags" \notin DOMAIN result.heap[result.ref]
                       THEN set_empty_tags(result.heap, result.ref, "fresh")
                       ELSE result.heap
             tags   == list_copy(h2, h2[result.ref].tags, "tags")
             h4     == IF Contains(tags.heap[tags.ref], normalized_tag)
                       THEN tags.heap
                       ELSE list_append(tags.heap, tags.ref, normalized_tag)
         IN  [raised |-> Ok, heap |-> setitem(h4, result.ref, "tags", tags.ref),
              ref |-> result.ref]

\* TaskTags.remove_tag, statement by statement.
remove_tag_on(h, tag) ==
    IF Len(tag) = 0 THEN [raised |-> "Tag cannot be empty", heap |-> h, ref |-> "none"]
    ELSE LET normalized_tag == normalize_tag(tag)
             result == dict_copy(h, "task_data", "result")
         IN  IF "tags" \notin DOMAIN result.heap[result.ref]
             THEN [raised |-> Ok, heap |-> set_empty_tags(result.heap, result.ref, "fresh"),
                   ref |-> result.ref]
             ELSE LET tags == list_copy(result.heap, result.heap[result.ref].tags, "tags")
                      h4   == IF Contains(tags.heap[tags.ref], normalized_tag)
                              THEN list_remove(tags.heap, tags.ref, normalized_tag)
                              ELSE tags.heap
                  IN  [raised |-> Ok, heap |-> setitem(h4, result.ref, "tags", tags.ref),
                       ref |-> result.ref]

\* TaskTags.add_tag(task_data, tag) on the caller's objects
CallAddTagOn ==
    Returns("add_tag_on", [kind |-> "result", out |-> add_tag_on(sent.arg.heap, sent.arg.tag)])

\* TaskTags.remove_tag(task_data, tag) on the caller's objects
CallRemoveTagOn ==
    Returns("remove_tag_on",
            [kind |-> "result", out |-> remove_tag_on(sent.arg.heap, sent.arg.tag)])

\* The caller's objects and the tag: tags that are added, found, rejected,
\* stripped, and the empty tag.
HeapInputs ==
    {[heap |-> HeapOf(rec), rec |-> rec, tag |-> t] :
        rec \in TaskRecords, t \in {<<>>, Urgent, bug, two_words, padded_urgent}}

NextPure == CallAddTagOn \/ CallRemoveTagOn

SpecPure == CallInit(HeapInputs) /\ [][NextPure]_vars

(***************************************************************************)
(* Direct calls of the TaskTags functions over lists of tasks              *)
(***************************************************************************)
\* Longest list of tasks handed to filter_tasks_by_tag and get_tag_counts.
MaxListLen == 2

URGENT == <<"U", "R", "G", "E", "N", "T">>

\* TaskTags.filter_tasks_by_tag(tasks, tag)
CallFilterTasksByTag ==
    Returns("filter_tasks_by_tag",
            [kind |-> "result", value |-> filter_tasks_by_tag(sent.arg.tasks, sent.arg.tag)])

\* TaskTags.get_tag_counts(tasks)
CallGetTagCounts ==
    Returns("get_tag_counts", [kind |-> "result", value |-> get_tag_counts(sent.arg.tasks)])

\* Task records as the store returns them: without a tags field, without
\* tags, with a tag in lower case, with the tag as create stored it
\* ("Urgent"), with two tags, with a tag twice.
ListedRecords ==
    {[title |-> "Write report"]}
      \cup {[title |-> "Write report", tags |-> l] :
               l \in {<<>>, <<urgent>>, <<Urgent>>, <<bug, urgent>>, <<bug, bug>>}}

\* Lists of task records and the query tag.
TaskListInputs ==
    {[tasks |-> l, tag |-> t] :
        l \in SeqUpTo(ListedRecords, MaxListLen), t \in {urgent, Urgent, URGENT, bug}}

NextTagLists == CallFilterTasksByTag \/ CallGetTagCounts

SpecTagLists == CallInit(TaskListInputs) /\ [][NextTagLists]_vars

(***************************************************************************)
(* parse_module_selection (install.py)                                     *)
(***************************************************************************)
\* Most parts a selection is made of.
MaxParts == 2

\* Largest number of modules on offer.
MaxCount == 3

Digits == <<"0", "1", "2", "3", "4", "5", "6", "7", "8", "9">>

\* The value of a digit character.
DigitValue(c) == (CHOOSE i \in DOMAIN Digits : Digits[i] = c) - 1

\* int(s) does not raise ValueError: an optional sign, then digits.  (int also
\* takes surrounding whitespace and underscores between digits; no part
\* here holds either.)
IsInt(s) ==
    LET body == IF Len(s) > 0 /\ s[1] \in {"+", "-"} THEN Tail(s) ELSE s
    IN  Len(body) > 0 /\ \A i \in DOMAIN body : body[i] \in DigitChars

RECURSIVE DecimalValue(_)
\* The number a string of digits spells.
DecimalValue(body) ==
    IF body = <<>> THEN 0
    ELSE 10 * DecimalValue(SubSeq(body, 1, Len(body) - 1)) + DigitValue(body[Len(body)])

\* int(s), for a string int accepts
int(s) ==
    IF s[1] = "-" THEN 0 - DecimalValue(Tail(s))
    ELSE IF s[1] = "+" THEN DecimalValue(Tail(s))
    ELSE DecimalValue(s)

RECURSIVE SplitOn(_, _)
\* str.split(sep) for a one-character sep: the pieces between the
\* separators, empty pieces included.
SplitOn(s, sep) ==
    IF ~Contains(s, sep) THEN <<s>>
    ELSE LET at == CHOOSE i \in DOMAIN s : s[i] = sep /\ \A j \in 1..(i - 1) : s[j] # sep
         IN  <<SubSeq(s, 1, at - 1)>> \o SplitOn(SubSeq(s, at + 1, Len(s)), sep)

RECURSIVE Split(_)
\* str.split(): the runs of characters between runs of whitespace
Split(s) ==
    IF s = <<>> THEN <<>>
    ELSE IF s[1] \in Whitespace THEN Split(Tail(s))
    ELSE LET stops == {i \in DOMAIN s : s[i] \in Whitespace}
             end   == IF stops = {} THEN Len(s) + 1
                      ELSE CHOOSE i \in stops : \A j \in stops : i <= j
         IN  <<SubSeq(s, 1, end - 1)>> \o Split(SubSeq(s, end, Len(s)))

\* list(range(max_count))
RangeList(max_count) == [k \in 1..max_count |-> k - 1]

\* AppendIndex without the test `(num - 1) not in indices`.
AppendIndex_noDuplicateTest(indices, num, max_count) ==
    IF 1 <= num /\ num <= max_count THEN Append(indices, num - 1) ELSE indices

\* if 1 <= num <= max_count and (num - 1) not in indices: indices.append(num - 1)
AppendIndex(indices, num, max_count) ==
    IF 1 <= num /\ num <= max_count /\ ~Contains(indices, num - 1)
    THEN Append(indices, num - 1)
    ELSE indices

RECURSIVE AppendRange(_, _, _, _)
\* for num in range(start_num, end_num + 1): the same append for each num
AppendRange(indices, start_num, end_num, max_count) ==
    IF start_num > end_num THEN indices
    ELSE AppendRange(AppendIndex(indices, start_num, max_count),
                     start_num + 1, end_num, max_count)

all == <<"a", "l", "l">>

none == <<"n", "o", "n", "e">>

rec == <<"r", "e", "c">>

recommended == <<"r", "e", "c", "o", "m", "m", "e", "n", "d", "e", "d">>

RECURSIVE ParseParts(_, _, _)
\* The loop over parts, from the parts still to read and the indices so far.
ParseParts(parts, max_count, indices) ==
    IF parts = <<>> THEN indices
    ELSE LET part       == Head(parts)
             part_lower == Lower(part)
             pieces     == SplitOn(part, "-")
         IN  IF part_lower = all THEN RangeList(max_count)
             ELSE IF part_lower \in {rec, recommended}
             THEN ParseParts(Tail(parts), max_count, indices)
             ELSE IF part_lower = none THEN <<>>
             ELSE IF Contains(part, "-")
             THEN IF Len(pieces) = 2 /\ IsInt(pieces[1]) /\ IsInt(pieces[2])
                  THEN ParseParts(Tail(parts), max_count,
                                  AppendRange(indices, int(pieces[1]), int(pieces[2]),
                                              max_count))
                  ELSE ParseParts(Tail(parts), max_count, indices)
             ELSE IF IsInt(part)
             THEN ParseParts(Tail(parts), max_count,
                             AppendIndex(indices, int(part), max_count))
             ELSE ParseParts(Tail(parts), max_count, indices)

\* parse_module_selection(selection, max_count)
parse_module_selection(selection, max_count) ==
    ParseParts(Split(selection), max_count, <<>>)

\* parse_module_selection(selection, max_count) is called
CallParseModuleSelection ==
    Returns("parse_module_selection",
            [kind |-> "result",
             value |-> parse_module_selection(sent.arg.selection, sent.arg.max_count)])

\* The parts a user types: numbers in and out of range, with a sign, with
\* two digits; ranges that are proper, empty, partly out of range, open or
\* too long; the shortcut words; another word.
SelectionParts ==
    {<<"1">>, <<"2">>, <<"3">>, <<"4">>, <<"0">>, <<"1", "0">>, <<"+", "2">>, <<"-", "2">>,
     <<"1", "-", "2">>, <<"2", "-", "4">>, <<"3", "-", "1">>, <<"2", "-">>,
     <<"1", "-", "2", "-", "3">>, <<"a", "-", "b">>,
     all, <<"A", "L", "L">>, none, rec, recommended, <<"x">>}

RECURSIVE Join(_, _)
\* sep.join(parts)
Join(parts, sep) ==
    IF parts = <<>> THEN <<>>
    ELSE IF Len(parts) = 1 THEN parts[1]
    ELSE parts[1] \o sep \o Join(Tail(parts), sep)

\* What the user types for each list of parts in L: the parts with one space
\* between them, or with a space and a tab between them and a space on both
\* ends.
SelectionInputs(L) ==
    {[selection |-> Join(parts, <<" ">>), parts |-> parts, max_count |-> m] :
        parts \in L, m \in 0..MaxCount}
      \cup
    {[selection |-> <<" ">> \o Join(parts, <<" ", "\t">>) \o <<" ">>,
      parts |-> parts, max_count |-> m] :
        parts \in L, m \in 0..MaxCount}

NextSelection == CallParseModuleSelection

SpecSelection ==
    CallInit(SelectionInputs(SeqUpTo(SelectionParts, MaxParts))) /\ [][NextSelection]_vars

(***************************************************************************)
(* run_wizard (install.py)                                                 *)
(***************************************************************************)
\* The wizard runs as w1: pc is the prompt it has reached, arg its locals,
\* seen the steps whose prompts it has shown so far, in order.  A step is
\* named as the module docstring's "Interactive Wizard Flow" names it.

\* The modules argument: an exclusive group of two, a standalone module, and
\* a module that one model auto-includes.
WizardModules ==
    <<[name |-> "core-strict", exclusive_group |-> "core",
       auto_include_with_model |-> Null, default_enabled |-> TRUE],
      [name |-> "core-flexible", exclusive_group |-> "core",
       auto_include_with_model |-> Null, default_enabled |-> FALSE],
      [name |-> "pytest", exclusive_group |-> Null,
       auto_include_with_model |-> Null, default_enabled |-> TRUE],
      [name |-> "haiku-json", exclusive_group |-> Null,
       auto_include_with_model |-> "haiku", default_enabled |-> FALSE]>>

\* load_models(): the ids, and the default model
WizardModels == {"haiku", "sonnet"}

DefaultModel == "sonnet"

\* sorted(exclusive_groups.items()): the group names in order
GroupNames == <<"core">>

\* The names of the modules of ms, in order.
Names(ms) == [k \in DOMAIN ms |-> ms[k].name]

\* model_specific_modules for the selected model
ModelSpecific(model_id) ==
    LET auto(m) == m.auto_include_with_model = model_id
    IN  Names(SelectSeq(WizardModules, auto))

\* The modules of an exclusive group that were not auto-included.
GroupModules(group_name, model_id) ==
    LET inGroup(m) == m.exclusive_group = group_name
                        /\ ~Contains(ModelSpecific(model_id), m.name)
    IN  SelectSeq(WizardModules, inGroup)

\* standalone_modules
StandaloneModules(model_id) ==
    LET alone(m) == m.exclusive_group = Null /\ ~Contains(ModelSpecific(model_id), m.name)
    IN  SelectSeq(WizardModules, alone)

\* The ide_config the custom mode starts from.
CustomIdeConfig ==
    [enable_hooks |-> FALSE, copy_instructions |-> FALSE,
     configure_ignore_patterns |-> FALSE, protect_guard_settings |-> TRUE,
     block_file_bypass |-> FALSE, auto_approve_pytest |-> FALSE]

\* run_wizard is entered: last_config says whether load_last_config() finds
\* a saved configuration, mode is the mode argument (Null when not given).
WizardLocals(last_config, mode) ==
    [last_config |-> last_config, mode |-> mode, loaded |-> FALSE, model_id |-> Null,
     selected_modules |-> <<>>, at |-> 1, ide_config |-> CustomIdeConfig,
     generate_tests |-> TRUE]

WizardInit ==
    /\ tasks = <<>>
    /\ nextId = 1
    /\ now = 1
    /\ resp = [p \in Procs |-> NoResponse]
    /\ sent = NoBody
    /\ \E last_config \in BOOLEAN, mode \in {Null, "express", "minimal", "custom"} :
         req = [p \in Procs |->
                  IF p = "w1"
                  THEN [Idle EXCEPT !.pc = "load", !.arg = WizardLocals(last_config, mode)]
                  ELSE Idle]

\* The wizard moves to pc with the locals arg, having shown the prompts of
\* the steps in asked.
WizardStep(pc, arg, asked) ==
    /\ req' = [req EXCEPT !["w1"] = [@ EXCEPT !.pc = pc, !.arg = arg,
                                              !.seen = @ \o asked]]
    /\ UNCHANGED <<tasks, nextId, now, resp, sent>>

\* "Load previous configuration?", asked when a saved configuration exists;
\* yes returns the loaded settings.
AskLoadPrevious ==
    /\ req["w1"].pc = "load"
    /\ LET a == req["w1"].arg
       IN  IF ~a.last_config THEN WizardStep("mode", a, <<>>)
           ELSE \E answer \in BOOLEAN :
                  IF answer
                  THEN WizardStep("done", [a EXCEPT !.loaded = TRUE], <<"load_previous">>)
                  ELSE WizardStep("mode", a, <<"load_previous">>)

\* select_wizard_mode() when no mode was given, then the express and minimal
\* modes return without a further prompt.
SelectWizardMode ==
    /\ req["w1"].pc = "mode"
    /\ LET a == req["w1"].arg
           enabled(m) == m.default_enabled
           finish(mode, asked) ==
               IF mode = "express"
               THEN WizardStep("done",
                               [a EXCEPT !.mode = mode, !.model_id = DefaultModel,
                                         !.selected_modules =
                                             Names(SelectSeq(WizardModules, enabled))],
                               asked)
               ELSE IF mode = "minimal"
               THEN WizardStep("done",
                               [a EXCEPT !.mode = mode, !.model_id = DefaultModel,
                                         !.selected_modules = <<"core-strict">>],
                               asked)
               ELSE WizardStep("model", [a EXCEPT !.mode = mode], asked)
       IN  IF a.mode = Null
           THEN \E mode \in {"express", "custom", "minimal"} : finish(mode, <<"mode">>)
           ELSE finish(a.mode, <<>>)

\* select_model(models, step=1, total=5), then the modules of the selected
\* model are auto-included.
SelectModel ==
    /\ req["w1"].pc = "model"
    /\ \E model_id \in WizardModels :
         WizardStep("groups",
                    [req["w1"].arg EXCEPT !.model_id = model_id,
                                          !.selected_modules = ModelSpecific(model_id)],
                    <<"model_selection">>)

\* select_from_exclusive_group for the next group, or on to the standalone
\* modules when no group is left.
SelectFromExclusiveGroup ==
    /\ req["w1"].pc = "groups"
    /\ LET a == req["w1"].arg
       IN  IF a.at > Len(GroupNames) THEN WizardStep("standalone", [a EXCEPT !.at = 1], <<>>)
           ELSE LET group_modules == GroupModules(GroupNames[a.at], a.model_id)
                IN  \E choice \in DOMAIN group_modules :
                      WizardStep("groups",
                                 [a EXCEPT !.at = @ + 1,
                                           !.selected_modules =
                                               Append(@, group_modules[choice].name)],
                                 <<"module_selection">>)

\* select_standalone_modules: Confirm.ask for the next standalone module, or
\* on to the IDE integration when none is left.
SelectStandaloneModules ==
    /\ req["w1"].pc = "standalone"
    /\ LET a == req["w1"].arg
           standalone_modules == StandaloneModules(a.model_id)
       IN  IF a.at > Len(standalone_modules) THEN WizardStep("hooks", a, <<>>)
           ELSE \E answer \in BOOLEAN :
                  WizardStep("standalone",
                             [a EXCEPT !.at = @ + 1,
                                       !.selected_modules =
                                           IF answer
                                           THEN Append(@, standalone_modules[a.at].name)
                                           ELSE @],
                             <<"module_selection">>)

\* "Enable TDD Guard hooks in Claude IDE?"
AskEnableHooks ==
    /\ req["w1"].pc = "hooks"
    /\ \E answer \in BOOLEAN :
         WizardStep("instructions",
                    [req["w1"].arg EXCEPT !.ide_config.enable_hooks = answer],
                    <<"ide_integration">>)

\* "Copy instructions to Claude IDE custom instructions?"
AskCopyInstructions ==
    /\ req["w1"].pc = "instructions"
    /\ \E answer \in BOOLEAN :
         WizardStep("ignore",
                    [req["w1"].arg EXCEPT !.ide_config.copy_instructions = answer],
                    <<"ide_integration">>)

\* "Configure ignore patterns for Claude IDE?"
AskIgnorePatterns ==
    /\ req["w1"].pc = "ignore"
    /\ \E answer \in BOOLEAN :
         WizardStep("protect",
                    [req["w1"].arg EXCEPT !.ide_config.configure_ignore_patterns = answer],
                    <<"ide_integration">>)

\* "Enable Guard Settings Protection?"
AskProtectSettings ==
    /\ req["w1"].pc = "protect"
    /\ \E answer \in BOOLEAN :
         WizardStep("bypass",
                    [req["w1"].arg EXCEPT !.ide_config.protect_guard_settings = answer],
                    <<"enforcement">>)

\* "Block File Operation Bypass?"
AskBlockBypass ==
    /\ req["w1"].pc = "bypass"
    /\ \E answer \in BOOLEAN :
         WizardStep("pytest",
                    [req["w1"].arg EXCEPT !.ide_config.block_file_bypass = answer],
                    <<"enforcement">>)

\* "Enable automatic approval for pytest commands?", asked when the pytest
\* module was selected.
AskAutoApprovePytest ==
    /\ req["w1"].pc = "pytest"
    /\ LET a == req["w1"].arg
       IN  IF ~Contains(a.selected_modules, "pytest") THEN WizardStep("generate", a, <<>>)
           ELSE \E answer \in BOOLEAN :
                  WizardStep("generate",
                             [a EXCEPT !.ide_config.auto_approve_pytest = answer],
                             <<"test_automation">>)

\* "Generate test scenarios?", then run_wizard returns.
AskGenerateTests ==
    /\ req["w1"].pc = "generate"
    /\ \E answer \in BOOLEAN :
         WizardStep("done", [req["w1"].arg EXCEPT !.generate_tests = answer],
                    <<"generate_tests">>)

NextWizard ==
    \/ AskLoadPrevious
    \/ SelectWizardMode
    \/ SelectModel
    \/ SelectFromExclusiveGroup
    \/ SelectStandaloneModules
    \/ AskEnableHooks
    \/ AskCopyInstructions
    \/ AskIgnorePatterns
    \/ AskProtectSettings
    \/ AskBlockBypass
    \/ AskAutoApprovePytest
    \/ AskGenerateTests

SpecWizard == WizardInit /\ [][NextWizard]_vars

(***************************************************************************)
(* Direct calls of Task.validate                                           *)
(***************************************************************************)
\* Task.validate(data)
CallValidate ==
    Returns("validate", [kind |-> "result", errors |-> validate(sent.arg)])

\* Bodies with and without a title, with an accepted and a rejected status,
\* and with every kind of tags value: lists mix a valid tag with tags that
\* validate_tag rejects for each of its three reasons.
ValidateInputs ==
    {Body(t, Absent, s, tg, {}) :
        t \in {Absent, "Write report"},
        s \in {Absent, "done"},
        tg \in {NoTags, NullTags, NotAList}
                 \cup {ListOf(l) : l \in SeqUpTo({Urgent, two_words, <<>>, too_long},
                                               MaxTagsLen)}}

NextValidate == CallValidate

SpecValidate == CallInit(ValidateInputs) /\ [][NextValidate]_vars

(***************************************************************************)
(* Properties                                                              *)
(***************************************************************************)
\* The tag format rule: non-empty, at most 50 characters, only letters,
\* digits, underscore, hyphen, period.
TagRule(tag) ==
    /\ Len(tag) >= 1
    /\ Len(tag) <= 50
    /\ \A i \in DOMAIN tag : tag[i] \in TagChars

IsArchived(doc) == "archived" \in DOMAIN doc /\ doc.archived

\* The operations that take a path identifier.
IdOps == {"get", "update", "delete", "archive", "add_tag", "remove_tag"}

\* C1: a get, update, delete, archive, add-tag or remove-tag request whose
\* path identifier is malformed is answered 400, has made no store call and
\* leaves the store as it was, whatever its body.  The add-tag handler reads
\* data['tag'] before it parses the identifier, and a body that is the JSON
\* array ["tag"] makes that read raise TypeError: the answer is 500.
C1_MalformedIdAnswers400 ==
    [][(sent'.op \in IdOps /\ sent'.id = BadId)
          => (sent'.code = 400 /\ sent'.calls = 0 /\ tasks' = tasks)]_vars

\* What the claim lists as failing create: missing or empty title, status
\* outside the enum, tags not a list, an invalid tag.
BadCreateBody(data) ==
    \/ data.title \in {Absent, Null, ""}
    \/ data.status \notin {Absent, Null, ""} \cup StatusEnum
    \/ data.tags.kind = "notlist"
    \/ data.tags.kind = "list" /\ \E i \in DOMAIN data.tags.val : ~TagRule(data.tags.val[i])

\* C2: create is all-or-nothing.  Task.validate returns errors exactly for
\* the bodies the claim lists; then create answers 400 and the store is
\* unchanged; otherwise exactly one record is inserted and 201 is answered
\* with that record's identifier.
C2_CreateAllOrNothing ==
    [][sent'.op = "create" =>
         LET data == sent'.arg IN
         /\ (validate(data) # <<>>) <=> BadCreateBody(data)
         /\ validate(data) # <<>> => (sent'.code = 400 /\ tasks' = tasks)
         /\ validate(data) = <<>> =>
              /\ sent'.code = 201
              /\ \E i \in DOMAIN tasks' \ DOMAIN tasks :
                   /\ DOMAIN tasks' = DOMAIN tasks \cup {i}
                   /\ tasks'[i]._id = i
                   /\ sent'.id = str(i)
                   /\ sent'.body.kind = "task"
                   /\ sent'.body.task._id = str(i)
              /\ \A j \in DOMAIN tasks : tasks'[j] = tasks[j]]_vars

\* C2 witness: a create with a two-tag list was answered 201 with the new
\* record, next to an older record.
C2_Witness ==
    /\ sent.op = "create"
    /\ sent.code = 201
    /\ sent.arg.tags.kind = "list"
    /\ Len(sent.arg.tags.val) = 2
    /\ sent.body.task._id = str(nextId - 1)
    /\ (nextId - 1) \in DOMAIN tasks

\* C3: every stored task's status is one of pending, in_progress, completed.
C3_StatusInEnum == \A i \in DOMAIN tasks : tasks[i].status \in StatusEnum

\* C4: every tag stored on every task satisfies the tag format rule.
C4_StoredTagsValid ==
    \A i \in DOMAIN tasks : \A k \in DOMAIN tasks[i].tags : TagRule(tasks[i].tags[k])

\* C5: every stored tags list holds only lower-case tags and no tag twice.
C5_StoredTagsNormalized ==
    \A i \in DOMAIN tasks :
        LET tags == tasks[i].tags IN
        /\ \A k \in DOMAIN tags : Lower(tags[k]) = tags[k]
        /\ \A k1, k2 \in DOMAIN tags : tags[k1] = tags[k2] => k1 = k2

\* C6: every stored task has a non-empty title.
C6_TitleNonEmpty == \A i \in DOMAIN tasks : tasks[i].title \notin {"", Null}

\* Worker p's request writes task oid in this step: archive answers 200, or
\* update, add-tag or remove-tag passes its update_one.
Mutates(p, oid) ==
    \/ /\ sent'.by = p
       /\ sent'.op = "archive"
       /\ sent'.code = 200
       /\ oid = ObjectId(sent'.id)
    \/ /\ req[p].pc = "idle"
       /\ req'[p].pc = "update_refetch"
       /\ oid = ObjectId(req'[p].id)
    \/ /\ req[p].pc \in {"add_update", "remove_update"}
       /\ req'[p].pc \in {"add_refetch", "remove_refetch"}
       /\ oid = ObjectId(req[p].id)

\* C7: every successful update, add-tag, remove-tag and archive sets the
\* task's updated_at to the time of the operation.
C7_MutationRefreshesUpdatedAt ==
    [][\A p \in Procs : \A oid \in DOMAIN tasks :
          Mutates(p, oid) => tasks'[oid].updated_at = now]_vars

\* C8: no step changes a stored task's identifier or created_at, and an
\* update writes only the keys among title, description, status, tags that
\* its body carries with a non-null value, plus updated_at.
C8_IdAndCreatedAtImmutable ==
    [][/\ \A i \in DOMAIN tasks' : tasks'[i]._id = i
       /\ \A i \in DOMAIN tasks \cap DOMAIN tasks' :
            tasks'[i].created_at = tasks[i].created_at
       /\ \A p \in Procs :
            (req[p].pc = "idle" /\ req'[p].pc = "update_refetch") =>
               LET i    == ObjectId(req'[p].id)
                   data == req'[p].arg
               IN  /\ DOMAIN tasks'[i] = DOMAIN tasks[i]
                   /\ \A k \in DOMAIN tasks[i] :
                        IF k = "updated_at" THEN tasks'[i][k] = now
                        ELSE IF k \in {"title", "description", "status", "tags"}
                                /\ k \in BodyKeys(data) /\ ~IsNone(data, k)
                             THEN tasks'[i][k] = Value(data, k)
                             ELSE tasks'[i][k] = tasks[i][k]]_vars

\* C8 witness: an update whose body carried _id, id, created_at and archived
\* answered 200 at a later instant than the task's creation, and the body
\* shows the identifier and created_at of the creation.
C8_Witness ==
    /\ sent.op = "update"
    /\ sent.code = 200
    /\ sent.arg.extra = ExtraKeys
    /\ sent.body.kind = "task"
    /\ sent.body.task._id = sent.id
    /\ sent.body.task.created_at = isoformat(1)
    /\ sent.body.task.updated_at = isoformat(MaxClock)

C10_WriteFromSnapshot ==
    [][\A p \in Procs :
          (req[p].pc = "add_update" /\ req'[p].pc = "add_refetch") =>
             LET oid == ObjectId(req[p].id) IN
             /\ tasks'[oid].tags =
                   add_tag([tags |-> req[p].seen], req[p].arg.tag).task.tags
             /\ \A k \in DOMAIN tasks[oid].tags :
                   (~Contains(req[p].seen, tasks[oid].tags[k])
                      /\ tasks[oid].tags[k] # normalize_tag(req[p].arg.tag))
                   => ~Contains(tasks'[oid].tags, tasks[oid].tags[k])]_vars

\* C10 witness (the lost update): the add-tag of "Urgent" and the add-tag of
\* "bug" on the same task both answered 200, and the stored list holds one tag.
C10_LostUpdate ==
    /\ resp["w1"] = [op |-> "add_tag", id |-> str(1), code |-> 200]
    /\ resp["w2"] = [op |-> "add_tag", id |-> str(1), code |-> 200]
    /\ \A p \in Procs : req[p].pc = "idle"
    /\ 1 \in DOMAIN tasks
    /\ Len(tasks[1].tags) = 1

\* The identifier was handed out and its record is gone.
Deleted(i) == i < nextId /\ i \notin DOMAIN tasks

\* This step answers a request that arrived in this step, for identifier i.
AnswersArrival(i) ==
    /\ sent'.op \in IdOps
    /\ sent'.id = str(i)
    /\ req[sent'.by].pc = "idle"

\* C11 as claimed: a deleted identifier's record never exists again, every
\* later get, update, delete, archive, add-tag and remove-tag on it answers
\* 404, and a delete that matches no record answers 404 and leaves the store
\* unchanged.  An update with an empty body or a status outside the enum, and
\* an add-tag without a tag, answer 400 on a deleted identifier.
C11_DeletedAnswers404 ==
    [][/\ \A i \in DOMAIN tasks' \ DOMAIN tasks : i >= nextId
       /\ \A i \in 1..MaxTasks :
            (Deleted(i) /\ AnswersArrival(i)) => sent'.code = 404
       /\ \A i \in 1..MaxTasks :
            (sent'.op = "delete" /\ sent'.id = str(i) /\ i \notin DOMAIN tasks)
               => (sent'.code = 404 /\ tasks' = tasks)]_vars

\* The body passes the checks the handler makes before it reaches the store.
PassesBodyChecks(op, arg) ==
    /\ op = "update" =>
         (~IsEmptyBody(arg) /\ arg.status \in StatusEnum \cup {Absent, Null, ""})
    /\ op = "add_tag" => arg.kind \in {"null", "str"}

\* C11 amended: as claimed, with 404 for every later request on the deleted
\* identifier whose body passes the handler's body checks.
C11_DeletedStaysDeleted ==
    [][/\ \A i \in DOMAIN tasks' \ DOMAIN tasks : i >= nextId
       /\ \A i \in 1..MaxTasks :
            (Deleted(i) /\ AnswersArrival(i) /\ PassesBodyChecks(sent'.op, sent'.arg))
               => sent'.code = 404
       /\ \A i \in 1..MaxTasks :
            (sent'.op = "delete" /\ sent'.id = str(i) /\ i \notin DOMAIN tasks)
               => (sent'.code = 404 /\ tasks' = tasks)]_vars

\* C11 witness: an add-tag fetched the task, the other worker deleted it and
\* got 404 for a second delete, and the add-tag's write matched nothing: 404.
C11_Witness ==
    /\ Deleted(1)
    /\ sent.op = "add_tag"
    /\ sent.code = 404
    /\ sent.calls = 2
    /\ resp["w2"] = [op |-> "delete", id |-> str(1), code |-> 404]

\* C12: a bulk delete whose task_ids are all well-formed answers 200 with
\* deleted_count equal to the number of records removed: the store shrinks by
\* deleted_count records, every listed identifier that matched a record is
\* gone, and identifiers that match nothing or repeat count 0.
C12_BulkDeleteCount ==
    [][sent'.op = "bulk_delete" /\ "task_ids" \in DOMAIN sent'.arg =>
         LET a     == sent'.arg
             ids   == {ObjectId(a.task_ids[k]) : k \in DOMAIN a.task_ids}
             count == sent'.body.deleted_count
         IN  /\ sent'.code = 200
             /\ DOMAIN tasks' = a.start \ ids
             /\ count = Cardinality(a.start) - Cardinality(DOMAIN tasks')
             /\ count = Cardinality(a.start \cap ids)
             /\ \A i \in DOMAIN tasks' : tasks'[i] = tasks[i]]_vars

\* C12 witness: a bulk delete that named the stored task twice and an
\* identifier that matches nothing answered deleted_count 1.
C12_Witness ==
    /\ sent.op = "bulk_delete"
    /\ sent.code = 200
    /\ sent.arg.start = {1}
    /\ sent.arg.task_ids = <<str(1), str(1)>>
    /\ sent.body.deleted_count = 1
    /\ tasks = <<>>

\* The update body carries a status string outside the enum.
CarriesBadStatus(data) == data.status \notin StatusEnum \cup {Absent, Null}

\* C13: an update whose body carries a status outside {pending, in_progress,
\* completed} answers 400 and writes nothing, whether or not the identifier
\* matches; an update with valid fields for an identifier that matches no
\* record answers 404 and writes nothing.  The empty string is a status
\* outside the enum that the handler lets through.
C13_UpdateErrors ==
    [][\A p \in Procs :
          req[p].pc = "idle" =>
            /\ req'[p].pc = "update_refetch" => ~CarriesBadStatus(req'[p].arg)
            /\ (sent'.by = p /\ sent'.op = "update" /\ CarriesBadStatus(sent'.arg))
                  => (sent'.code = 400 /\ tasks' = tasks)
            /\ (/\ sent'.by = p
                /\ sent'.op = "update"
                /\ ~IsEmptyBody(sent'.arg)
                /\ ~CarriesBadStatus(sent'.arg)
                /\ sent'.arg.title # ""
                /\ IsValidId(sent'.id)
                /\ ObjectId(sent'.id) \notin DOMAIN tasks)
                  => (sent'.code = 404 /\ tasks' = tasks)]_vars

\* C14: in every list response, total is the number of tasks in the response
\* when a (non-empty) tag filter is given; otherwise it is the number of
\* stored tasks that match the status filter, whatever limit and skip are.
C14_ListTotal ==
    [][sent'.op = "list" =>
         LET q    == sent'.arg
             body == sent'.body
         IN  /\ sent'.code = 200
             /\ (q.tag.kind = "str" /\ q.tag.tag # <<>>) => body.total = Len(body.tasks)
             /\ ~(q.tag.kind = "str" /\ q.tag.tag # <<>>) =>
                  body.total = Cardinality({i \in DOMAIN tasks :
                                   q.status \in {Absent, ""} \/ tasks[i].status = q.status})]_vars

\* C14 witness: a list request without tag filter, with limit 1 and skip 1,
\* answered an empty page and total 1.
C14_Witness ==
    /\ sent.op = "list"
    /\ sent.arg.tag.kind = "absent"
    /\ sent.arg.limit = 1
    /\ sent.arg.skip = 1
    /\ sent.body.tasks = <<>>
    /\ sent.body.total = 1

\* The response of this step is for a stored task.
AnswersStored == IsValidId(sent'.id) /\ Found(ObjectId(sent'.id))

\* C15: with no other request interleaved, create from a title-only body
\* answers 201 with status pending and no tags; a get by the returned id
\* right after it answers the same record; add-tag "Urgent" on the task
\* answers with tags containing "urgent"; remove-tag "urgent" answers with no
\* tags; delete answers 200; a get by that id right after it answers 404.
C15_EndToEnd ==
    [][/\ (sent'.op = "create" /\ sent'.arg = PlainBody) =>
            /\ sent'.code = 201
            /\ sent'.body.task.status = "pending"
            /\ sent'.body.task.tags = <<>>
       /\ (sent.op = "create" /\ sent.code = 201 /\ sent'.op = "get" /\ sent'.id = sent.id) =>
            /\ sent'.code = 200
            /\ sent'.body = sent.body
       /\ (sent'.op = "add_tag" /\ AnswersStored) =>
            /\ sent'.code = 200
            /\ Contains(sent'.body.task.tags, urgent)
       /\ (sent'.op = "remove_tag" /\ AnswersStored) =>
            /\ sent'.code = 200
            /\ sent'.body.task.tags = <<>>
       /\ (sent'.op = "delete" /\ AnswersStored) => sent'.code = 200
       /\ (sent.op = "delete" /\ sent.code = 200 /\ sent'.op = "get" /\ sent'.id = sent.id) =>
            sent'.code = 404]_vars

\* C15 witness: the last step of the sequence: the task was created and
\* deleted, and the get that follows the delete answered 404.
C15_Witness ==
    /\ nextId = 2
    /\ tasks = <<>>
    /\ sent.op = "get"
    /\ sent.id = str(1)
    /\ sent.code = 404

\* The add-tag body has no tag, an empty tag, or a tag the format rule rejects.
BadTagBody(arg) ==
    \/ arg.kind \in {"absent", "null"}
    \/ arg.kind = "str" /\ ~TagRule(arg.tag)

\* This step answers a tag request that arrived in this step for a
\* well-formed identifier that matches no record.
TagRequestOnUnknown ==
    /\ sent'.op \in {"add_tag", "remove_tag"}
    /\ req[sent'.by].pc = "idle"
    /\ IsValidId(sent'.id)
    /\ ~Found(ObjectId(sent'.id))

\* C16 as claimed: an add-tag on a stored task whose tag is missing, empty or
\* rejected by validate_tag answers 400 and writes nothing; an add-tag or
\* remove-tag for a well-formed identifier that matches no record answers
\* 404.  An add-tag without a tag key answers 400 before the store is read.
C16_AddTagErrors ==
    [][/\ \A p \in Procs :
            (req[p].pc = "idle" /\ req'[p].pc = "add_update") => ~BadTagBody(req'[p].arg)
       /\ (sent'.op = "add_tag" /\ AnswersStored /\ BadTagBody(sent'.arg))
            => (sent'.code = 400 /\ tasks' = tasks)
       /\ TagRequestOnUnknown => sent'.code = 404]_vars

\* C16 amended: 404 for every remove-tag, and every add-tag whose body
\* carries a tag key, on a well-formed identifier that matches no record.
C16_AddTagErrorsWithTagKey ==
    [][/\ \A p \in Procs :
            (req[p].pc = "idle" /\ req'[p].pc = "add_update") => ~BadTagBody(req'[p].arg)
       /\ (sent'.op = "add_tag" /\ AnswersStored /\ BadTagBody(sent'.arg))
            => (sent'.code = 400 /\ tasks' = tasks)
       /\ (TagRequestOnUnknown
             /\ (sent'.op = "add_tag" => sent'.arg.kind \in {"null", "str"}))
            => sent'.code = 404]_vars

\* C16 witness: an add-tag of "to do" on a stored task answered 400 after
\* the one store read.
C16_Witness ==
    /\ sent.op = "add_tag"
    /\ sent.id = str(1)
    /\ sent.arg = StrTag(two_words)
    /\ sent.code = 400
    /\ sent.calls = 1
    /\ Found(1)

\* Worker p's add-tag or remove-tag passes its update_one in this step.
TagWrite(p) ==
    /\ req[p].pc \in {"add_update", "remove_update"}
    /\ req'[p].pc \in {"add_refetch", "remove_refetch"}

\* C17: the write of add-tag and remove-tag changes the tags field of its
\* task and nothing else in the store, and the title, description and status
\* a concurrent update has written are never replaced in a later step by the
\* values the tag request fetched.
C17_TagWriteOnlyTags ==
    [][/\ \A p \in Procs :
            TagWrite(p) =>
               LET oid == ObjectId(req[p].id) IN
               /\ DOMAIN tasks' = DOMAIN tasks
               /\ \A j \in DOMAIN tasks \ {oid} : tasks'[j] = tasks[j]
               /\ DOMAIN tasks'[oid] = DOMAIN tasks[oid]
               /\ \A k \in DOMAIN tasks[oid] \ {"tags"} : tasks'[oid][k] = tasks[oid][k]
               /\ tasks'[oid].tags = req[p].tags
       /\ \A i \in DOMAIN tasks \cap DOMAIN tasks' :
            /\ tasks[i].title = FinalBody.title => tasks'[i].title = FinalBody.title
            /\ tasks[i].description = FinalBody.description
                  => tasks'[i].description = FinalBody.description
            /\ tasks[i].status = FinalBody.status => tasks'[i].status = FinalBody.status]_vars

\* C17 witness: an add-tag and an update of the same archived task have both
\* written and neither has answered; the task holds the update's title and
\* status, the archived flag and the tag.
C17_Witness ==
    /\ req["w1"].pc = "add_refetch"
    /\ req["w2"].pc = "update_refetch"
    /\ Found(1)
    /\ tasks[1].title = FinalBody.title
    /\ tasks[1].status = FinalBody.status
    /\ IsArchived(tasks[1])
    /\ tasks[1].tags = <<urgent>>
    /\ tasks[1].updated_at > tasks[1].created_at

\* C18: validate_tag accepts a tag exactly when it is non-empty, at most 50
\* characters long and made of [a-zA-Z0-9_.-] only, and raises otherwise; for
\* every accepted tag, normalize_tag returns it lower-cased.
C18_ValidateTagRule ==
    /\ sent.op = "validate_tag" => (sent.body.raised = Ok <=> TagRule(sent.arg))
    /\ (sent.op = "normalize_tag" /\ TagRule(sent.arg)) =>
          sent.body.value = [i \in DOMAIN sent.arg |-> LowerChar(sent.arg[i])]

\* C18 witness: validate_tag rejected "a\n", which TAG_PATTERN alone matches.
C18_Witness ==
    /\ sent.op = "validate_tag"
    /\ sent.arg = <<"a", "\n">>
    /\ TAG_PATTERN_match(sent.arg)
    /\ sent.body.raised = "Tag contains invalid characters"

\* How often x occurs in list.
Count(list, x) == Cardinality({k \in DOMAIN list : list[k] = x})

\* C19: for valid tags t and t' with the same normal form,
\* add_tag(add_tag(task, t), t') equals add_tag(task, t), and its tags hold
\* normalize(t) exactly once.  A record that already holds the tag twice
\* still holds it twice.
C19_AddTagIdempotent ==
    (sent.op = "add_tag_twice"
       /\ normalize_tag(sent.arg.tag) = normalize_tag(sent.arg.again)) =>
          /\ sent.body.first.raised = Ok
          /\ sent.body.second.raised = Ok
          /\ sent.body.second.task = sent.body.first.task
          /\ Count(sent.body.second.task.tags, normalize_tag(sent.arg.tag)) = 1

\* C20: the result of remove_tag does not contain normalize(tag) and keeps the
\* other tags in their order; when the input's tags do not contain
\* normalize(tag), the result equals the input.  list.remove drops the first
\* occurrence only, and a record without tags comes back with tags: [].
C20_RemoveTagRemoves ==
    (sent.op = "remove_tag_call" /\ sent.body.removed.raised = Ok) =>
        LET n      == normalize_tag(sent.arg.tag)
            before == TagsOf(sent.arg.task)
            after  == sent.body.removed.task.tags
            other(x) == x # n
        IN  /\ ~Contains(after, n)
            /\ SelectSeq(after, other) = SelectSeq(before, other)
            /\ ~Contains(before, n) => sent.body.removed.task = sent.arg.task

\* C21: add_tag and remove_tag never mutate their input: after either call,
\* whether it returned or raised, the task record passed in and its tags list
\* hold the values they held before the call.
C21_InputNotMutated ==
    (sent.op \in {"add_tag_on", "remove_tag_on"}) =>
        \A a \in DOMAIN sent.arg.heap : sent.body.out.heap[a] = sent.arg.heap[a]

\* C21 witness: add_tag returned a record with "bug" appended to the tags
\* ["urgent"] of its input, as the value-level add_tag computes it.
C21_Witness ==
    /\ sent.op = "add_tag_on"
    /\ TagsOf(sent.arg.rec) = <<urgent>>
    /\ sent.arg.tag = bug
    /\ sent.body.out.raised = Ok
    /\ Deref(sent.body.out.heap, sent.body.out.ref) = add_tag(sent.arg.rec, bug).task
    /\ Deref(sent.body.out.heap, sent.body.out.ref).tags = <<urgent, bug>>

\* C22: filter_tasks_by_tag(tasks, tag) returns, in input order, exactly the
\* tasks whose tags, each normalized, include normalize(tag).  The function
\* compares the normalized query with the tags as they are stored, so a task
\* stored with "Urgent" is not returned for the query "urgent".
C22_FilterByNormalizedTag ==
    (sent.op = "filter_tasks_by_tag") =>
        LET carries(task) ==
                \E i \in DOMAIN TagsOf(task) :
                    normalize_tag(TagsOf(task)[i]) = normalize_tag(sent.arg.tag)
        IN  sent.body.value = SelectSeq(sent.arg.tasks, carries)

\* C23: get_tag_counts(tasks) maps each tag some task carries to the number
\* of tasks that carry it, and holds no other tag.  Counter counts
\* occurrences, so a task whose tags repeat a tag is counted once per repeat.
C23_TagCountsPerTask ==
    (sent.op = "get_tag_counts") =>
        LET carriers(t) == {k \in DOMAIN sent.arg.tasks : Contains(TagsOf(sent.arg.tasks[k]), t)}
            carried     == UNION {Range(TagsOf(sent.arg.tasks[k])) : k \in DOMAIN sent.arg.tasks}
        IN  /\ DOMAIN sent.body.value = carried
            /\ \A t \in carried : sent.body.value[t] = Cardinality(carriers(t))

\* The indices a part contributes: n - 1 for a number n, a - 1 .. b - 1 for a
\* range a-b, nothing for any other part; indices outside 0 .. max_count - 1
\* are left out.
Contribution(part, max_count) ==
    LET pieces == SplitOn(part, "-")
        lo     == IF Len(pieces) = 2 /\ IsInt(pieces[1]) /\ IsInt(pieces[2])
                  THEN int(pieces[1])
                  ELSE IF ~Contains(part, "-") /\ IsInt(part) THEN int(part) ELSE 1
        hi     == IF Len(pieces) = 2 /\ IsInt(pieces[1]) /\ IsInt(pieces[2])
                  THEN int(pieces[2])
                  ELSE IF ~Contains(part, "-") /\ IsInt(part) THEN int(part) ELSE 0
        first  == IF lo < 1 THEN 1 ELSE lo
        last   == IF hi > max_count THEN max_count ELSE hi
    IN  [k \in 1..(IF last >= first THEN last - first + 1 ELSE 0) |-> first + k - 2]

RECURSIVE Contributions(_, _)
\* The contributions of the parts, in the order of the parts.
Contributions(parts, max_count) ==
    IF parts = <<>> THEN <<>>
    ELSE Contribution(Head(parts), max_count) \o Contributions(Tail(parts), max_count)

RECURSIVE FirstAppearances(_)
\* The elements of s in the order of their first appearance.
FirstAppearances(s) ==
    IF s = <<>> THEN <<>>
    ELSE LET before == FirstAppearances(SubSeq(s, 1, Len(s) - 1))
         IN  IF Contains(before, s[Len(s)]) THEN before ELSE Append(before, s[Len(s)])

\* The result lies in 0 .. max_count - 1 and holds no index twice.
InRangeNoDuplicate(value, max_count) ==
    /\ \A i \in DOMAIN value : 0 <= value[i] /\ value[i] <= max_count - 1
    /\ \A i, j \in DOMAIN value : value[i] = value[j] => i = j

\* C24: parse_module_selection returns zero-based indices in
\* 0 .. max_count - 1 without duplicates, in order of first appearance: a
\* number n contributes n - 1, a range a-b contributes a - 1 .. b - 1,
\* out-of-range and non-numeric parts are ignored, and the word all yields
\* every index.
C24_ParseSelection ==
    (sent.op = "parse_module_selection") =>
        /\ InRangeNoDuplicate(sent.body.value, sent.arg.max_count)
        /\ sent.body.value =
              IF \E i \in DOMAIN sent.arg.parts : Lower(sent.arg.parts[i]) = all
              THEN RangeList(sent.arg.max_count)
              ELSE FirstAppearances(Contributions(sent.arg.parts, sent.arg.max_count))

\* C24, amended: as above, except that the first part that is the word all
\* or the word none ends the parsing: all yields every index, none yields no
\* index.
C24_ParseSelectionWithNone ==
    (sent.op = "parse_module_selection") =>
        LET parts   == sent.arg.parts
            words   == {i \in DOMAIN parts : Lower(parts[i]) \in {all, none}}
            decides == CHOOSE i \in words : \A j \in words : i <= j
        IN  /\ InRangeNoDuplicate(sent.body.value, sent.arg.max_count)
            /\ sent.body.value =
                  IF words = {}
                  THEN FirstAppearances(Contributions(parts, sent.arg.max_count))
                  ELSE IF Lower(parts[decides]) = all THEN RangeList(sent.arg.max_count)
                  ELSE <<>>

\* C24 witness: "2-4 1" with three modules gives 1, 2, 0: the range first,
\* index 3 left out as out of range.
C24_Witness ==
    /\ sent.op = "parse_module_selection"
    /\ sent.arg.selection = <<"2", "-", "4", " ", "1">>
    /\ sent.arg.max_count = 3
    /\ sent.body.value = <<1, 2, 0>>

\* The place of a step in the documented flow; 0 for a step the claim does
\* not order.
FlowRank(step) ==
    CASE step = "module_selection" -> 2
      [] step = "model_selection" -> 3
      [] step = "ide_integration" -> 4
      [] step = "enforcement" -> 5
      [] step = "generate_tests" -> 6
      [] OTHER -> 0

\* C25: when no previous configuration is loaded and custom mode runs, the
\* steps are asked in the documented order: module selection, model
\* selection, Claude IDE integration, enforcement configuration, generate
\* test scenarios.  run_wizard asks for the model before the modules.
C25_WizardOrder ==
    LET w == req["w1"]
    IN  (w.pc # "idle" /\ ~w.arg.loaded /\ w.arg.mode = "custom") =>
            /\ \A i, j \in DOMAIN w.seen :
                 (i < j /\ FlowRank(w.seen[i]) > 0 /\ FlowRank(w.seen[j]) > 0)
                    => FlowRank(w.seen[i]) <= FlowRank(w.seen[j])
            /\ w.pc = "done" =>
                 \A step \in {"module_selection", "model_selection", "ide_integration",
                              "enforcement", "generate_tests"} : Contains(w.seen, step)

\* C26: a bulk delete whose list holds a malformed identifier aborts at the
\* first malformed one with an unhandled error: no 200 and no deleted_count;
\* the records named before it are deleted, every other record is as it was,
\* and no delete was attempted for the identifiers after it.
C26_BulkDeleteAborts ==
    [][(/\ sent'.op = "bulk_delete"
        /\ "task_ids" \in DOMAIN sent'.arg
        /\ \E k \in DOMAIN sent'.arg.task_ids : ~IsValidId(sent'.arg.task_ids[k]))
          => LET a      == sent'.arg
                 bad    == {k \in DOMAIN a.task_ids : ~IsValidId(a.task_ids[k])}
                 first  == CHOOSE k \in bad : \A j \in bad : k <= j
                 before == {ObjectId(a.task_ids[k]) : k \in 1..(first - 1)}
             IN  /\ sent'.code = 500
                 /\ sent'.body.kind = "error"
                 /\ sent'.calls = first - 1
                 /\ DOMAIN tasks' = a.start \ before
                 /\ \A i \in DOMAIN tasks' : tasks'[i] = tasks[i]]_vars

\* C26 witness: a bulk delete of the stored task and then a malformed
\* identifier answered 500 after one delete, and the task is gone.
C26_Witness ==
    /\ sent.op = "bulk_delete"
    /\ sent.code = 500
    /\ sent.arg.start = {1}
    /\ sent.arg.task_ids = <<str(1), BadId>>
    /\ sent.calls = 1
    /\ tasks = <<>>

\* C27: an unexpected store exception is turned into the handler's generic
\* 500 body only by add-tag and remove-tag; in create, list, get, update,
\* delete, bulk delete, archive, list all tags and tag usage stats it
\* propagates to the framework.  get_all_tags and get_tag_statistics have an
\* except Exception of their own.
C27_OnlyTagMutationsCatch ==
    (sent.code = 500) =>
        IF sent.op \in {"add_tag", "remove_tag"}
        THEN sent.body = ErrorBody("Internal server error")
        ELSE sent.body = Unhandled

\* The 'Invalid tag: ...' entries Task.validate can report.
InvalidTagEntries ==
    {InvalidTagError(msg) : msg \in {"Tag cannot be empty",
                                     "Tag is too long (max 50 characters)",
                                     "Tag contains invalid characters"}}

\* C28: for a tags list holding k tags that validate_tag rejects, the error
\* list of Task.validate holds k 'Invalid tag' entries, and it holds none
\* exactly when every tag is valid.  The loop over the tags sits inside the
\* try, so the first rejected tag ends it.
C28_ValidatePerTag ==
    (sent.op = "validate" /\ sent.arg.tags.kind = "list") =>
        LET l        == sent.arg.tags.val
            rejected == {i \in DOMAIN l : validate_tag(l[i]) # Ok}
            entries  == {i \in DOMAIN sent.body.errors :
                            sent.body.errors[i] \in InvalidTagEntries}
        IN  Cardinality(entries) = Cardinality(rejected)

\* C29: every record produced by Task.create carries created_at equal to
\* updated_at, also when the clock advances between two reads of it.
\* Task.create reads the clock once for each field.
C29_CreatedAtEqualsUpdatedAt ==
    (sent.op = "create" /\ sent.code = 201) =>
        /\ Found(ObjectId(sent.id))
        /\ tasks[ObjectId(sent.id)].created_at = tasks[ObjectId(sent.id)].updated_at

\* C30: whenever update, add-tag or remove-tag answers 200, the body is the
\* serialized task of the requested identifier and never null, also when a
\* delete of the same task runs concurrently.  The handlers fetch the record
\* again after the write and serialize whatever find_one returns.
C30_SuccessBodyIsTheTask ==
    (sent.code = 200 /\ sent.op \in {"update", "add_tag", "remove_tag"}) =>
        /\ sent.body.kind = "task"
        /\ sent.body.task._id = sent.id

====
